---------------------------- MODULE Spec2Model ----------------------------
(***************************************************************************)
(* Data pipeline of the handwriting-to-LaTeX repository: the collector     *)
(* (01_collect_data.py), the preprocessor (02_preprocess.py), the          *)
(* evaluation (04_evaluate.py), the inference script (05_inference.py),    *)
(* the pix2tex format adapter (06_prepare_pix2tex_data.py) and the         *)
(* vocabulary and dataset builder (07_create_pix2tex_dataset.py); and the  *)
(* programs beside it: clean_latex of render_questions.py, the integral    *)
(* generators (integral-gen/generate_integrals.py and                      *)
(* integrals_generation/integral_generator.py) and the question generator  *)
(* (question-gen/generate_questions.py).                                   *)
(*                                                                         *)
(* Strings are sequences of one-token strings; a file name ends in the     *)
(* tokens ".", "png" or ".", "jpg" (the extension is one token).  A text   *)
(* file is the sequence of its characters, NL being the line terminator.   *)
(***************************************************************************)
EXTENDS Integers, Sequences, FiniteSets, TLC

VARIABLES
    rawExists,     \* the directory written_answers/ exists
    rawDir,        \* written_answers/: the set of file names present
    bankExists,    \* the file questions.json exists
    questions,     \* questions.json: category -> sequence of [id, answer]
    trainImages,   \* data/train/images: file name -> content of the file
    valImages,     \* data/val/images
    trainLabels,   \* data/train/labels.txt: [exists, text]
    valLabels,     \* data/val/labels.txt
    runLog,        \* one record per completed collector call
    adPc,          \* prepare_pix2tex_data: "idle" before the call, "done" after
    pixTrainImages, \* dataset/images/train: numbered name -> the image copied
    pixValImages,  \* dataset/images/val
    trainEquations, \* what convert_split("train") returned
    valEquations,  \* what convert_split("val") returned
    trainEqFile,   \* dataset/data/train_equations.txt: [exists, text]
    valEqFile,     \* dataset/data/val_equations.txt
    prepLog,       \* the image directories as each preprocess_images call left them
    evPc,          \* evaluate_model: "idle", "loop", "done", "returned" (no model),
                   \* "failed_open" or "failed_metric" (ended by an exception)
    modelDir,      \* models/trocr-finetuned exists
    evLabels,      \* labels: the rows read from data/val/labels.txt
    evI,           \* samples the loop has gone through
    predictions,   \* predictions: [sample, text], sample being the row it came from
    references,    \* references: [sample, text]
    errors,        \* errors: the samples scored with a CER above 0
    evPrinted,     \* rows of the "Error processing ..." lines printed
    overallCer,    \* overall_cer as [num, den]
    overallWer,    \* overall_wer as [num, den]
    targetCer,     \* config.yaml evaluation.target_cer as [num, den]
    worst,         \* the entries printed under "Top 10 worst predictions"
    verdict,       \* "none", "meets" (the target line printed) or "above"
    tokenizerFile, \* dataset/tokenizer.json: [exists, vocab]
    trainPkl,      \* dataset/data/train.pkl: [exists, equations, vocab]
    valPkl,        \* dataset/data/val.pkl
    builds,        \* create_pix2tex_datasets calls completed
    infLog,        \* one record per run of 05_inference.py
    splitData,     \* process_split's data: the samples of the split being written
    loaded,        \* reader -> [read, rows]: the (img_name, label) rows it read from labels.txt
    latexStr,      \* clean_latex: the argument latex_str
    cleaned,       \* clean_latex: the value returned, once it has returned
    latexPc,       \* clean_latex: "idle" before the call, "done" after
    intFile,       \* integral-gen/integrals.json: [kind, integrals]
    intLog,        \* one record per run of generate_integrals.py's main
    bankFile,      \* integrals.json beside integrals_generation/: [kind, integrals]
    addLog,        \* one record per add_to_integrals_json call
    qArgs,         \* generate_questions: the arguments n, low, high, op, out_path, randomize
    qResult,       \* generate_questions: [status, via, chosen, questions] once it has ended
    qFile          \* the file at out_path: [exists, op, questions]

collectVars == <<rawExists, rawDir, bankExists, questions, runLog>>
dataVars == <<trainImages, valImages, trainLabels, valLabels>>
adapterVars == <<adPc, pixTrainImages, pixValImages, trainEquations, valEquations,
                 trainEqFile, valEqFile>>

prepVars == <<prepLog>>
evalVars == <<evPc, modelDir, evLabels, evI, predictions, references, errors,
              evPrinted, overallCer, overallWer, targetCer, worst, verdict>>

vocabVars == <<tokenizerFile, trainPkl, valPkl, builds>>

inferVars == <<infLog>>

labelIoVars == <<splitData, loaded>>

latexVars == <<latexStr, cleaned, latexPc>>

integralGenVars == <<intFile, intLog>>

integralAddVars == <<bankFile, addLog>>

questionGenVars == <<qArgs, qResult, qFile>>

\* the variables of the programs outside the pipeline's stages
toolVars == <<labelIoVars, latexVars, integralGenVars, integralAddVars, questionGenVars>>

pipelineVars == <<collectVars, dataVars, adapterVars, prepVars, evalVars, vocabVars, inferVars>>

vars == <<pipelineVars, toolVars>>

---------------------------------------------------------------------------
(* Bounds *)

MaxRaw == 3        \* files in written_answers/ at any time
MaxRuns == 2       \* collector calls in one behaviour
MaxRows == 2       \* rows of a labels.txt the format adapter is given
MaxPasses == 2     \* preprocess_images calls in one behaviour
ImageSize == 2     \* config.yaml data.image_size, in pixels
MaxSamples == 11   \* rows of data/val/labels.txt in the long evaluations
MaxBuilds == 2     \* create_pix2tex_datasets calls in one behaviour
MaxInferences == 1 \* runs of 05_inference.py in one behaviour

---------------------------------------------------------------------------
(* Characters and strings *)

TAB == "\t"
NL == "\n"
SP == " "
US == "_"
DOT == "."
LB == "{"
RB == "}"

Whitespace == {TAB, NL, SP}
Digits == <<"0", "1", "2", "3", "4", "5", "6", "7", "8", "9">>

\* the characters in code point order (an extension token by its first letter)
CharOrder ==
    <<TAB, NL, SP, DOT, "0", "1", "2", "3", "4", "5", "6", "7", "8", "9", "^", US,
      "a", "b", "jpg", "p", "png", "q", "t", "u", "x", LB, RB>>
Ord(c) == CHOOSE k \in 1..Len(CharOrder) : CharOrder[k] = c

RECURSIVE StrLess(_, _)
\* a < b on Python strings
StrLess(a, b) ==
    IF Len(b) = 0 THEN FALSE
    ELSE IF Len(a) = 0 THEN TRUE
    ELSE IF a[1] = b[1] THEN StrLess(Tail(a), Tail(b))
    ELSE Ord(a[1]) < Ord(b[1])

NoFile == [exists |-> FALSE, text |-> <<>>]
File(t) == [exists |-> TRUE, text |-> t]

Range(s) == {s[i] : i \in 1..Len(s)}

Perms(S) == {s \in [1..Cardinality(S) -> S] : \A i, j \in 1..Cardinality(S) : s[i] = s[j] => i = j}

RECURSIVE SplitOn(_, _)
\* str.split(sep) for a one-character separator
SplitOn(s, sep) ==
    IF \A i \in 1..Len(s) : s[i] # sep
    THEN <<s>>
    ELSE LET i == CHOOSE k \in 1..Len(s) : s[k] = sep /\ \A m \in 1..(k - 1) : s[m] # sep
         IN  <<SubSeq(s, 1, i - 1)>> \o SplitOn(SubSeq(s, i + 1, Len(s)), sep)

RECURSIVE Join(_, _)
\* sep.join(parts)
Join(parts, sep) ==
    IF Len(parts) = 0 THEN <<>>
    ELSE IF Len(parts) = 1 THEN parts[1]
    ELSE parts[1] \o <<sep>> \o Join(Tail(parts), sep)

RECURSIVE LStrip(_, _)
LStrip(s, chars) ==
    IF Len(s) > 0 /\ s[1] \in chars THEN LStrip(Tail(s), chars) ELSE s

RECURSIVE RStrip(_, _)
RStrip(s, chars) ==
    IF Len(s) > 0 /\ s[Len(s)] \in chars THEN RStrip(SubSeq(s, 1, Len(s) - 1), chars) ELSE s

\* str.strip(chars): every leading and every trailing character in chars
Strip(s, chars) == RStrip(LStrip(s, chars), chars)

\* iterating a text file: the pieces between line terminators, the last one
\* only when it is not empty
FileLines(text) ==
    LET ps == SplitOn(text, NL)
    IN  IF Len(ps[Len(ps)]) = 0 THEN SubSeq(ps, 1, Len(ps) - 1) ELSE ps

\* Path.suffix and Path.stem: cut at the last dot
LastDot(name) ==
    IF \E i \in 2..Len(name) : name[i] = DOT
    THEN CHOOSE i \in 2..Len(name) : name[i] = DOT /\ \A m \in (i + 1)..Len(name) : name[m] # DOT
    ELSE 0
Suffix(name) == IF LastDot(name) = 0 THEN <<>> ELSE SubSeq(name, LastDot(name), Len(name))
Stem(name) == IF LastDot(name) = 0 THEN name ELSE SubSeq(name, 1, LastDot(name) - 1)

\* int(s) raises ValueError unless s is a decimal literal
IsIntLiteral(s) == Len(s) > 0 /\ \A i \in 1..Len(s) : s[i] \in Range(Digits)
DigitVal(c) == (CHOOSE k \in 1..10 : Digits[k] = c) - 1
RECURSIVE IntOf(_)
IntOf(s) == IF Len(s) = 0 THEN 0 ELSE 10 * IntOf(SubSeq(s, 1, Len(s) - 1)) + DigitVal(s[Len(s)])

RECURSIVE StrOfNat(_)
StrOfNat(n) == IF n < 10 THEN <<Digits[n + 1]>> ELSE StrOfNat(n \div 10) \o <<Digits[(n % 10) + 1]>>

\* str(q['answer']): a JSON string is itself, a JSON number its decimal form
StrOfAnswer(a) == IF a.kind = "num" THEN StrOfNat(a.val) ELSE a.chars


---------------------------------------------------------------------------
(* Inputs of the collector *)

\* file names that may appear in written_answers/
RawUniverse ==
    { <<"a", US, "1", US, "t", DOT, "png">>,
      <<"a", US, "2", US, "t", DOT, "png">>,
      <<"a", US, "1", US, "u", DOT, "jpg">>,
      <<"a", US, "x", US, "t", DOT, "png">>,
      <<"a", DOT, "jpg">>,
      <<"b", US, "1", US, "t", DOT, "png">>,
      <<"a", US, "3", US, "t", DOT, "jpg">> }

\* contents questions.json may have
Banks ==
    { (<<"a">> :> << [id |-> 1, answer |-> [kind |-> "str", chars |-> <<"7">>, val |-> 0]],
                     [id |-> 2, answer |-> [kind |-> "num", chars |-> <<>>, val |-> 12]] >>),
      (<<"a">> :> << [id |-> 2, answer |-> [kind |-> "str", chars |-> <<"5">>, val |-> 0]],
                     [id |-> 1, answer |-> [kind |-> "num", chars |-> <<>>, val |-> 7]] >>)
        @@ (<<"b">> :> << [id |-> 1, answer |-> [kind |-> "str", chars |-> <<"3">>, val |-> 0]] >>) }

---------------------------------------------------------------------------
(* 01_collect_data.py *)

\* written_answers_dir.glob("*.png") / glob("*.jpg")
Glob(dir, ext) == {n \in dir : Len(n) >= 2 /\ SubSeq(n, Len(n) - 1, Len(n)) = <<DOT, ext>>}

\* the files of glob("*.png") and glob("*.jpg") together
ImageFiles(dir) == Glob(dir, "png") \cup Glob(dir, "jpg")

\* list(glob("*.png")) + list(glob("*.jpg")): each glob enumerates its files
\* in whatever order the directory yields them
Listings(dir) == {p \o j : p \in Perms(Glob(dir, "png")), j \in Perms(Glob(dir, "jpg"))}

\* the id comparison left out: any entry of the category matches
MatchesAnyId(bank, category, qid) ==
    IF category \in DOMAIN bank THEN 1..Len(bank[category]) ELSE {}

\* the entries of the category whose id matches
Matches(bank, category, qid) ==
    IF category \in DOMAIN bank
    THEN {k \in 1..Len(bank[category]) : bank[category][k].id = qid}
    ELSE {}

\* the first one (the loop breaks on it)
FirstMatch(bank, category, qid) ==
    CHOOSE k \in Matches(bank, category, qid) : \A m \in Matches(bank, category, qid) : k <= m

\* the body of the loop over images: the samples one file appends
SamplesOf(name, bank) ==
    LET parts == SplitOn(Stem(name), US)
    IN  IF Len(parts) >= 2
        THEN IF IsIntLiteral(parts[2])
             THEN IF Matches(bank, parts[1], IntOf(parts[2])) # {}
                  THEN << [path |-> name,
                           label |-> StrOfAnswer(bank[parts[1]][FirstMatch(bank, parts[1], IntOf(parts[2]))].answer),
                           category |-> parts[1]] >>
                  ELSE <<>>
             ELSE <<>>
        ELSE <<>>

RECURSIVE ImageLabels(_, _)
ImageLabels(images, bank) ==
    IF Len(images) = 0 THEN <<>>
    ELSE SamplesOf(images[1], bank) \o ImageLabels(Tail(images), bank)

\* the values random.seed(42) makes randbelow(i + 1) return for
\* i = n-1, ..., 1 when a list of n elements is shuffled
Seed42Draws ==
    << <<>>, <<0>>, <<2, 0>>, <<0, 0, 1>>, <<0, 0, 2, 1>>, <<5, 0, 0, 2, 1>>,
       <<5, 0, 0, 2, 0, 0>>, <<1, 0, 5, 2, 1, 0, 0>> >>

Swap(x, i, j) == [x EXCEPT ![i] = x[j], ![j] = x[i]]

RECURSIVE ShuffleFrom(_, _, _)
\* random.shuffle: for i in reversed(range(1, n)): j = randbelow(i + 1); swap
ShuffleFrom(x, k, draws) ==
    IF k > Len(draws) THEN x
    ELSE ShuffleFrom(Swap(x, (Len(x) - k) + 1, draws[k] + 1), k + 1, draws)

RandomShuffle(x) == IF Len(x) = 0 THEN x ELSE ShuffleFrom(x, 1, Seed42Draws[Len(x)])

\* round(len(image_labels) * 0.8) in place of int(...)
SplitIdxRounded(n) == (n * 8 + 5) \div 10

\* int(len(image_labels) * 0.8)
SplitIdx(n) == (n * 8) \div 10

\* image_labels[split_idx + 1:] in place of image_labels[split_idx:]
ValDataSkipsOne(shuffled) == SubSeq(shuffled, SplitIdx(Len(shuffled)) + 2, Len(shuffled))

TrainData(shuffled) == SubSeq(shuffled, 1, SplitIdx(Len(shuffled)))
ValData(shuffled) == SubSeq(shuffled, SplitIdx(Len(shuffled)) + 1, Len(shuffled))

\* process_split: the lines of labels.txt and the files copied
LabelLine(sample) == sample.path \o <<TAB>> \o sample.label
LabelsText(data) == Join([i \in 1..Len(data) |-> LabelLine(data[i])], NL)
\* the bytes of a photographed answer, known by the name it has in written_answers/
RawContent(name) == [raw |-> name]

\* shutil.copy2(img_path, images_dir / img_path.name) for every sample
CopiedInto(imagesDir, data) ==
    LET new == {data[i].path : i \in 1..Len(data)}
    IN  [n \in DOMAIN imagesDir \cup new |-> IF n \in new THEN RawContent(n) ELSE imagesDir[n]]

\* shutil.move in place of shutil.copy2: the source file is gone afterwards
RawAfterMove(dir, data) == dir \ {data[i].path : i \in 1..Len(data)}

\* written_answers/ after shutil.copy2 read every sample's file from it
RawAfterCopy(dir, data) == dir

\* the files the loop prints "Warning: Could not parse question_id" for:
\* int(parts[1]) raised ValueError
Warned(dir) ==
    {n \in ImageFiles(dir) : Len(SplitOn(Stem(n), US)) >= 2 /\ ~IsIntLiteral(SplitOn(Stem(n), US)[2])}

\* what one run printed and wrote; the loop over images is entered only
\* after questions.json was loaded
LogEntry(outcome, il, tr, va) ==
    [input |-> rawDir, outcome |-> outcome, collected |-> Len(il), train |-> tr, val |-> va,
     warned |-> IF outcome \in {"no_pairs", "done"} THEN Warned(rawDir) ELSE {}]

\* one call of collect_data_from_written_answers
Collect ==
    /\ Len(runLog) < MaxRuns
    /\ \E images \in Listings(rawDir) :
         LET il == ImageLabels(images, questions)
             sh == RandomShuffle(il)
         IN  IF Len(images) = 0
             THEN /\ runLog' = Append(runLog, LogEntry("no_images", <<>>, <<>>, <<>>))
                  /\ UNCHANGED <<rawDir, trainImages, valImages, trainLabels, valLabels>>
             ELSE IF ~bankExists
             THEN /\ runLog' = Append(runLog, LogEntry("failed_bank", <<>>, <<>>, <<>>))
                  /\ UNCHANGED <<rawDir, trainImages, valImages, trainLabels, valLabels>>
             ELSE IF Len(il) = 0
             THEN /\ runLog' = Append(runLog, LogEntry("no_pairs", <<>>, <<>>, <<>>))
                  /\ UNCHANGED <<rawDir, trainImages, valImages, trainLabels, valLabels>>
             ELSE /\ rawDir' = RawAfterCopy(rawDir, sh)
                  /\ trainImages' = CopiedInto(trainImages, TrainData(sh))
                  /\ valImages' = CopiedInto(valImages, ValData(sh))
                  /\ trainLabels' = File(LabelsText(TrainData(sh)))
                  /\ valLabels' = File(LabelsText(ValData(sh)))
                  /\ runLog' = Append(runLog, LogEntry("done", il, TrainData(sh), ValData(sh)))
    /\ UNCHANGED <<rawExists, bankExists, questions, adapterVars, prepVars, evalVars, vocabVars, inferVars, toolVars>>

\* the user adds a photographed answer to written_answers/
AddRaw ==
    /\ Len(runLog) < MaxRuns
    /\ rawExists
    /\ Cardinality(rawDir) < MaxRaw
    /\ \E f \in RawUniverse \ rawDir : rawDir' = rawDir \cup {f}
    /\ UNCHANGED <<rawExists, bankExists, questions, runLog, dataVars, adapterVars, prepVars, evalVars, vocabVars, inferVars, toolVars>>

\* no split is being written and no consumer has read a labels file
NotRead == [read |-> FALSE, rows |-> <<>>]
LabelIoIdle ==
    /\ splitData = <<>>
    /\ loaded = [training |-> NotRead, adapter |-> NotRead]

LatexIdle ==
    /\ latexStr = <<>>
    /\ cleaned = <<>>
    /\ latexPc = "idle"

IntegralGenIdle ==
    /\ intFile = [kind |-> "absent", integrals |-> <<>>]
    /\ intLog = <<>>

IntegralAddIdle ==
    /\ bankFile = [kind |-> "absent", integrals |-> <<>>]
    /\ addLog = <<>>

QuestionGenIdle ==
    /\ qArgs = <<>>
    /\ qResult = <<>>
    /\ qFile = [exists |-> FALSE, op |-> "", questions |-> <<>>]

\* none of the programs outside the pipeline's stages has run
ToolsIdle == LabelIoIdle /\ LatexIdle /\ IntegralGenIdle /\ IntegralAddIdle /\ QuestionGenIdle

\* evaluate_model has not been called, and no model has been trained
EvalIdle ==
    /\ evPc = "idle"
    /\ modelDir = FALSE
    /\ evLabels = <<>>
    /\ evI = 0
    /\ predictions = <<>>
    /\ references = <<>>
    /\ errors = <<>>
    /\ evPrinted = <<>>
    /\ overallCer = [num |-> 0, den |-> 1]
    /\ overallWer = [num |-> 0, den |-> 1]
    /\ targetCer = [num |-> 1, den |-> 10]
    /\ worst = <<>>
    /\ verdict = "none"

\* create_pix2tex_datasets has not been called: no tokenizer, no pickle
VocabIdle ==
    /\ tokenizerFile = [exists |-> FALSE, vocab |-> {}]
    /\ trainPkl = [exists |-> FALSE, equations |-> <<>>, vocab |-> {}]
    /\ valPkl = [exists |-> FALSE, equations |-> <<>>, vocab |-> {}]
    /\ builds = 0

\* prepare_pix2tex_data has not been called: dataset/ does not exist
AdapterIdle ==
    /\ adPc = "idle"
    /\ pixTrainImages = <<>>
    /\ pixValImages = <<>>
    /\ trainEquations = <<>>
    /\ valEquations = <<>>
    /\ trainEqFile = NoFile
    /\ valEqFile = NoFile

InitCollect ==
    /\ rawExists \in BOOLEAN
    /\ rawDir = {}
    /\ \/ bankExists = TRUE /\ questions \in Banks
       \/ bankExists = FALSE /\ questions = <<>>
    /\ trainImages = <<>>
    /\ valImages = <<>>
    /\ trainLabels = NoFile
    /\ valLabels = NoFile
    /\ runLog = <<>>
    /\ AdapterIdle
    /\ VocabIdle
    /\ prepLog = <<>>
    /\ infLog = <<>>
    /\ ToolsIdle
    /\ EvalIdle

NextCollect == Collect \/ AddRaw

Spec == InitCollect /\ [][NextCollect]_vars


---------------------------------------------------------------------------
(* Readers of labels.txt (03_finetune_trocr.py, 04_evaluate.py,            *)
(* 06_prepare_pix2tex_data.py share the loop)                              *)

\* line.split('\t', 1) of a line that holds a tab
SplitOnce(s, sep) ==
    LET i == CHOOSE k \in 1..Len(s) : s[k] = sep /\ \A m \in 1..(k - 1) : s[m] # sep
    IN  <<SubSeq(s, 1, i - 1), SubSeq(s, i + 1, Len(s))>>

RECURSIVE RowsOf(_)
\* line = line.strip(); if '\t' in line: img_name, label = line.split('\t', 1)
RowsOf(lines) ==
    IF Len(lines) = 0 THEN <<>>
    ELSE LET line == Strip(lines[1], Whitespace)
         IN  (IF TAB \in Range(line) THEN <<SplitOnce(line, TAB)>> ELSE <<>>)
             \o RowsOf(Tail(lines))

ReadLabels(text) == RowsOf(FileLines(text))

---------------------------------------------------------------------------
(* Claims about the collector *)

Done(e) == e.outcome = "done"
LastRun == runLog[Len(runLog)]
Paths(data) == {data[i].path : i \in 1..Len(data)}
Fields(name) == SplitOn(Stem(name), US)
MalformedName(name) == Len(Fields(name)) < 2 \/ ~IsIntLiteral(Fields(name)[2])
InBank(name) ==
    /\ ~MalformedName(name)
    /\ \E c \in DOMAIN questions : 
         /\ c = Fields(name)[1]
         /\ \E k \in 1..Len(questions[c]) : questions[c][k].id = IntOf(Fields(name)[2])
BankAnswer(name) ==
    LET c == Fields(name)[1]
        k == CHOOSE k \in 1..Len(questions[c]) : questions[c][k].id = IntOf(Fields(name)[2])
    IN  questions[c][k].answer
UsableFiles(dir) == {f \in ImageFiles(dir) : InBank(f)}

\* C1: a completed collection of N usable samples has |train| = floor(0.8 N),
\* |val| = N - |train|, no sample in both splits, and every usable sample in one
C1_SplitSizes ==
    \A r \in 1..Len(runLog) :
        Done(runLog[r]) =>
            LET e == runLog[r]
                N == Cardinality(UsableFiles(e.input))
            IN  /\ 5 * Len(e.train) <= 4 * N
                /\ 4 * N < 5 * (Len(e.train) + 1)
                /\ Len(e.val) = N - Len(e.train)
                /\ Cardinality(Paths(e.train)) = Len(e.train)
                /\ Cardinality(Paths(e.val)) = Len(e.val)
                /\ Paths(e.train) \cap Paths(e.val) = {}
                /\ Paths(e.train) \cup Paths(e.val) = UsableFiles(e.input)

C1_Witness ==
    \E r \in 1..Len(runLog) :
        /\ Done(runLog[r])
        /\ Len(runLog[r].train) = 2
        /\ Len(runLog[r].val) = 1

\* C2: two completed collections over the same set of image files give the
\* same partition, whatever order the directory was enumerated in
C2_SameInputSamePartition ==
    \A r1, r2 \in 1..Len(runLog) :
        (Done(runLog[r1]) /\ Done(runLog[r2]) /\ runLog[r1].input = runLog[r2].input) =>
            /\ Paths(runLog[r1].train) = Paths(runLog[r2].train)
            /\ Paths(runLog[r1].val) = Paths(runLog[r2].val)

\* C5: collected = total image files - malformed names - bank misses, and the
\* collected, the malformed and the missed files partition the image files
C5_CollectedCount ==
    \A r \in 1..Len(runLog) :
        LET e == runLog[r]
            all == ImageFiles(e.input)
            bad == {f \in all : MalformedName(f)}
            miss == {f \in all : ~MalformedName(f) /\ ~InBank(f)}
            got == Paths(e.train) \cup Paths(e.val)
        IN  /\ e.collected = Cardinality(all) - Cardinality(bad) - Cardinality(miss)
            /\ e.collected = Len(e.train) + Len(e.val)
            /\ got \cup bad \cup miss = all
            /\ got \cap bad = {}
            /\ got \cap miss = {}
            /\ Cardinality(got) = e.collected

C5_Witness ==
    \E r \in 1..Len(runLog) :
        LET all == ImageFiles(runLog[r].input)
        IN  /\ Done(runLog[r])
            /\ runLog[r].collected = 1
            /\ \E f \in all : Len(Fields(f)) < 2
            /\ \E f \in all : ~MalformedName(f) /\ ~InBank(f)

Occurrences(data, f) == {i \in 1..Len(data) : data[i].path = f}
LinesWith(file, row) == {i \in 1..Len(ReadLabels(file.text)) : ReadLabels(file.text)[i] = row}

\* C6: an image file category_id_timestamp with a bank entry gives exactly one
\* sample, labelled with the string form of the entry's answer, in exactly one
\* split ("addition_1_... .png" with answer "7" is labelled "7")
C6_BankLabel ==
    \A r \in 1..Len(runLog) :
        \A f \in UsableFiles(runLog[r].input) :
            LET e == runLog[r]
                lbl == IF BankAnswer(f).kind = "num" THEN StrOfNat(BankAnswer(f).val)
                       ELSE BankAnswer(f).chars
            IN  /\ Done(e)
                /\ Cardinality(Occurrences(e.train, f)) + Cardinality(Occurrences(e.val, f)) = 1
                /\ \A i \in Occurrences(e.train, f) : e.train[i].label = lbl
                /\ \A i \in Occurrences(e.val, f) : e.val[i].label = lbl
                /\ (f = <<"a", US, "1", US, "t", DOT, "png">> /\ questions[<<"a">>][1].id = 1)
                      => lbl = <<"7">>
                /\ r = Len(runLog) =>
                      /\ Cardinality(LinesWith(trainLabels, <<f, lbl>>))
                           + Cardinality(LinesWith(valLabels, <<f, lbl>>)) = 1
                      /\ LinesWith(trainLabels, <<f, lbl>>) # {} => f \in DOMAIN trainImages
                      /\ LinesWith(valLabels, <<f, lbl>>) # {} => f \in DOMAIN valImages

C6_Witness ==
    /\ Len(runLog) > 0
    /\ Done(LastRun)
    /\ questions[<<"a">>][1].id = 1
    /\ LastRun.input = {<<"a", US, "1", US, "t", DOT, "png">>}
    /\ ReadLabels(valLabels.text) = << <<(<<"a", US, "1", US, "t", DOT, "png">>), (<<"7">>)>> >>

RowNames(file) == {ReadLabels(file.text)[i][1] : i \in 1..Len(ReadLabels(file.text))}

\* C7: after a completed collection the file names listed in each split's
\* labels.txt are exactly the image files of the split's image directory
C7_LabelsMatchImages ==
    (Len(runLog) > 0 /\ Done(LastRun)) =>
        /\ RowNames(trainLabels) = DOMAIN trainImages
        /\ RowNames(valLabels) = DOMAIN valImages


---------------------------------------------------------------------------
(* render_questions.py: clean_latex *)

RECURSIVE BraceDepths(_, _)
\* the running count of has_balanced_braces after each character
BraceDepths(s, count) ==
    IF Len(s) = 0 THEN <<>>
    ELSE LET c == IF s[1] = LB THEN count + 1 ELSE IF s[1] = RB THEN count - 1 ELSE count
         IN  <<c>> \o BraceDepths(Tail(s), c)

HasBalancedBraces(s) ==
    LET d == BraceDepths(s, 0)
    IN  /\ \A i \in 1..Len(d) : d[i] >= 0
        /\ (Len(d) = 0 \/ d[Len(d)] = 0)

StartsWith(s, pre) == Len(s) >= Len(pre) /\ SubSeq(s, 1, Len(pre)) = pre
EndsWith(s, suf) == Len(s) >= Len(suf) /\ SubSeq(s, Len(s) - Len(suf) + 1, Len(s)) = suf

\* the outer layer removed whenever the string starts with {{ and ends with }}
CleanLatexUnchecked(s) ==
    IF StartsWith(s, <<LB, LB>>) /\ EndsWith(s, <<RB, RB>>)
    THEN SubSeq(s, 2, Len(s) - 1)
    ELSE s

CleanLatex(s) ==
    IF StartsWith(s, <<LB, LB>>) /\ EndsWith(s, <<RB, RB>>)
          /\ HasBalancedBraces(SubSeq(s, 2, Len(s) - 1))
    THEN SubSeq(s, 2, Len(s) - 1)
    ELSE s

---------------------------------------------------------------------------
(* 06_prepare_pix2tex_data.py *)

\* clean_label = label.strip('{}')
CleanLabel(label) == Strip(label, {LB, RB})

RECURSIVE PairsOfAllRows(_, _)
\* every row kept, its source image present or not
PairsOfAllRows(rows, imagesDir) ==
    IF Len(rows) = 0 THEN <<>>
    ELSE << [src |-> rows[1][1], label |-> CleanLabel(rows[1][2])] >>
         \o PairsOfAllRows(Tail(rows), imagesDir)

RECURSIVE PairsOf(_, _)
\* the rows whose source image exists, with the label cleaned
PairsOf(rows, imagesDir) ==
    IF Len(rows) = 0 THEN <<>>
    ELSE (IF rows[1][1] \in DOMAIN imagesDir
          THEN << [src |-> rows[1][1], label |-> CleanLabel(rows[1][2])] >>
          ELSE <<>>)
         \o PairsOf(Tail(rows), imagesDir)

RECURSIVE InsertByName(_, _)
InsertByName(sorted, x) ==
    IF Len(sorted) = 0 THEN <<x>>
    ELSE IF StrLess(x.src, sorted[1].src) THEN <<x>> \o sorted
    ELSE <<sorted[1]>> \o InsertByName(Tail(sorted), x)

\* the pairs left in the order of labels.txt
SortByNameSkipped(pairs) == pairs

RECURSIVE SortByName(_)
\* image_pairs.sort(key=lambda x: x[0].name), a stable sort
SortByName(pairs) ==
    IF Len(pairs) = 0 THEN <<>>
    ELSE InsertByName(SortByName(SubSeq(pairs, 1, Len(pairs) - 1)), pairs[Len(pairs)])

\* ext = src_img.suffix.lower(); '.png' unless it is .png, .jpg or .jpeg
DstExt(src) ==
    IF Suffix(src) \in {<<DOT, "png">>, <<DOT, "jpg">>, <<DOT, "jpeg">>}
    THEN Suffix(src)
    ELSE <<DOT, "png">>

DstName(idx, src) == StrOfNat(idx) \o DstExt(src)

\* shutil.copy2(src_img, dst_img) for every pair, idx counting from 0
CopyNumbered(dir, pairs) ==
    LET new == {DstName(i - 1, pairs[i].src) : i \in 1..Len(pairs)}
    IN  [n \in DOMAIN dir \cup new |->
            IF n \in new
            THEN pairs[CHOOSE i \in 1..Len(pairs) : DstName(i - 1, pairs[i].src) = n].src
            ELSE dir[n]]

\* the sorted image_pairs of convert_split(split_name)
ConvertSplit(labels, imagesDir) ==
    IF labels.exists THEN SortByName(PairsOf(ReadLabels(labels.text), imagesDir)) ELSE <<>>

EquationsOf(pairs) == [i \in 1..Len(pairs) |-> pairs[i].label]

\* with open(eq_file, 'w') as f: f.write('\n'.join(equations))
EquationsText(equations) == Join(equations, NL)

\* one call of prepare_pix2tex_data
PrepareData ==
    /\ adPc = "idle"
    /\ LET tp == ConvertSplit(trainLabels, trainImages)
           vp == ConvertSplit(valLabels, valImages)
       IN  /\ pixTrainImages' = CopyNumbered(pixTrainImages, tp)
           /\ pixValImages' = CopyNumbered(pixValImages, vp)
           /\ trainEquations' = EquationsOf(tp)
           /\ valEquations' = EquationsOf(vp)
           /\ trainEqFile' = File(EquationsText(EquationsOf(tp)))
           /\ valEqFile' = File(EquationsText(EquationsOf(vp)))
    /\ adPc' = "done"
    /\ UNCHANGED <<collectVars, dataVars, prepVars, evalVars, vocabVars, inferVars, toolVars>>

\* file names and labels the adapter is tried on
AdNames == { <<"p", DOT, "png">>, <<"q", DOT, "jpg">>, <<"b", DOT, "png">> }
AdLabels ==
    { <<LB, LB, "x", "^", "2", RB, RB>>,
      <<LB, "x", "^", "2", RB>>,
      <<LB, LB, "x", "^", "2", RB>>,
      <<"x", "^", LB, "2", RB>>,
      <<LB, RB>>,
      <<"7">> }
AdRow == [path : AdNames, label : AdLabels, category : {<<"a">>}]
AdData ==
    {d \in UNION {[1..n -> AdRow] : n \in 0..MaxRows} :
        \A i, j \in 1..Len(d) : d[i].path = d[j].path => i = j}

InitAdapter ==
    /\ rawExists = TRUE
    /\ rawDir = {}
    /\ bankExists = TRUE
    /\ questions = <<>>
    /\ runLog = <<>>
    /\ trainLabels \in {NoFile} \cup {File(LabelsText(d)) : d \in AdData}
    /\ trainImages \in {[n \in d |-> RawContent(n)] : d \in {AdNames, AdNames \ {<<"q", DOT, "jpg">>}}}
    /\ valLabels \in {NoFile} \cup {File(LabelsText(d)) : d \in {e \in AdData : Len(e) = 1 /\ e[1].path = <<"b", DOT, "png">>}}
    /\ valImages = [n \in AdNames |-> RawContent(n)]
    /\ AdapterIdle
    /\ VocabIdle
    /\ prepLog = <<>>
    /\ infLog = <<>>
    /\ ToolsIdle
    /\ EvalIdle

NextAdapter == PrepareData

SpecAdapter == InitAdapter /\ [][NextAdapter]_vars

---------------------------------------------------------------------------
(* Claims about the format adapter *)

\* the label labels.txt gives the image
SrcLabel(labels, name) ==
    LET rows == ReadLabels(labels.text)
    IN  rows[CHOOSE i \in 1..Len(rows) : rows[i][1] = name][2]

\* the image copied as {i}.ext
Numbered(dir, i) == {n \in DOMAIN dir : Stem(n) = StrOfNat(i)}

LinesAligned(eqFile, dir, labels) ==
    LET lines == FileLines(eqFile.text)
        count == Cardinality(DOMAIN dir)
    IN  /\ Len(lines) = count
        /\ \A i \in 0..(count - 1) :
              /\ Cardinality(Numbered(dir, i)) = 1
              /\ \A n \in Numbered(dir, i) : lines[i + 1] = CleanLabel(SrcLabel(labels, dir[n]))

\* C3: once the adapter has written the equations files, each has as many
\* lines as images were copied for its split and line i is the cleaned label
\* of the image copied as {i}.ext
C3_EquationsAligned ==
    adPc = "done" =>
        /\ LinesAligned(trainEqFile, pixTrainImages, trainLabels)
        /\ LinesAligned(valEqFile, pixValImages, valLabels)

OneLayerStripped(equations, dir, labels) ==
    \A i \in 1..Len(equations) :
        \A n \in Numbered(dir, i - 1) :
            equations[i] = CleanLatex(SrcLabel(labels, dir[n]))

\* C4: the adapter's cleaned label is the label with one balanced outer brace
\* layer removed, and the label itself otherwise
C4_OneBraceLayer ==
    adPc = "done" =>
        /\ OneLayerStripped(trainEquations, pixTrainImages, trainLabels)
        /\ OneLayerStripped(valEquations, pixValImages, valLabels)

\* the number {i}.ext stands for
IndexOf(n) == IntOf(Stem(n))

IndexByName(dir) ==
    \A n \in DOMAIN dir :
        /\ IndexOf(n) = Cardinality({m \in DOMAIN dir : StrLess(dir[m], dir[n])})
        /\ \A m \in DOMAIN dir : StrLess(dir[m], dir[n]) => IndexOf(m) < IndexOf(n)

\* C16: of two images the adapter copied, the one whose original file name
\* is smaller has the smaller index, and an image's index is the number of
\* copied images with a smaller original name, whatever the order of the rows
C16_IndexOrder ==
    adPc = "done" => IndexByName(pixTrainImages) /\ IndexByName(pixValImages)

\* two rows in the reverse of name order, both copied
C16_Witness ==
    /\ adPc = "done"
    /\ Cardinality(DOMAIN pixTrainImages) = 2
    /\ LET rows == ReadLabels(trainLabels.text)
       IN  Len(rows) = 2 /\ StrLess(rows[2][1], rows[1][1])

RowsIn(labels) == IF labels.exists THEN ReadLabels(labels.text) ELSE <<>>

\* rows whose source image exists
Present(labels, imagesDir) ==
    {i \in 1..Len(RowsIn(labels)) : RowsIn(labels)[i][1] \in DOMAIN imagesDir}

NoGap(dir, equations, labels, imagesDir) ==
    LET n == Cardinality(Present(labels, imagesDir))
    IN  /\ Cardinality(DOMAIN dir) = n
        /\ {Stem(m) : m \in DOMAIN dir} = {StrOfNat(i) : i \in 0..(n - 1)}
        /\ {dir[m] : m \in DOMAIN dir} = {RowsIn(labels)[i][1] : i \in Present(labels, imagesDir)}
        /\ Len(equations) = n

\* C17: the images the adapter copied are named 0, 1, ..., n-1, n being
\* the rows whose source image exists, they are those rows' images, and the
\* equations list has n entries
C17_NoGaps ==
    adPc = "done" =>
        /\ NoGap(pixTrainImages, trainEquations, trainLabels, trainImages)
        /\ NoGap(pixValImages, valEquations, valLabels, valImages)

\* two rows, the image of one of them missing, the other copied as 0
C17_Witness ==
    /\ adPc = "done"
    /\ Len(RowsIn(trainLabels)) = 2
    /\ Cardinality(Present(trainLabels, trainImages)) = 1
    /\ Cardinality(DOMAIN pixTrainImages) = 1
    /\ \A m \in DOMAIN pixTrainImages : Stem(m) = <<"0">>


---------------------------------------------------------------------------
(* 02_preprocess.py                                                        *)
(* An image is [w, h, px], px[<<x, y>>] the value of a pixel in 0..255     *)
(* (one channel stands for the three of RGB).                              *)

White == 255

Min(a, b) == IF a <= b THEN a ELSE b
Max(a, b) == IF a >= b THEN a ELSE b
Abs(a) == IF a >= 0 THEN a ELSE 0 - a
Clamp(v) == Max(0, Min(255, v))

\* a / q rounded to the nearest integer, halves away from zero
RoundDiv(a, q) ==
    IF a >= 0 THEN (2 * a + q) \div (2 * q) ELSE 0 - ((2 * (0 - a) + q) \div (2 * q))

\* Image.thumbnail's round_aspect for the side that shrinks below size: the
\* floor or the ceiling of size * short / long, whichever keeps the aspect
\* ratio better, and at least 1
RoundAspectX(size, w, h) ==
    LET lo == (size * w) \div h
        hi == IF (size * w) % h = 0 THEN lo ELSE lo + 1
    IN  Max(IF Abs(size * w - lo * h) <= Abs(size * w - hi * h) THEN lo ELSE hi, 1)

RoundAspectY(size, w, h) ==
    LET lo == (size * h) \div w
        hi == IF (size * h) % w = 0 THEN lo ELSE lo + 1
    IN  Max(IF lo = 0 \/ Abs(w * lo - size * h) * hi <= Abs(w * hi - size * h) * lo THEN lo ELSE hi, 1)

\* a thumbnail that always scales the longer side to size, small images too
ThumbnailSizeFill(size, w, h) ==
    IF h >= w THEN <<RoundAspectX(size, w, h), size>>
    ELSE <<size, RoundAspectY(size, w, h)>>

\* the size img.thumbnail((size, size)) gives the image: unchanged when it
\* fits, else the longer side becomes size
ThumbnailSize(size, w, h) ==
    IF size >= w /\ size >= h THEN <<w, h>>
    ELSE IF h >= w THEN <<RoundAspectX(size, w, h), size>>
    ELSE <<size, RoundAspectY(size, w, h)>>

\* resize: every pixel of the result is taken from the source pixel its
\* position maps to (stands for the LANCZOS filter)
Resize(img, nw, nh) ==
    [w |-> nw, h |-> nh,
     px |-> [q \in (0..(nw - 1)) \X (0..(nh - 1)) |->
                img.px[<<(q[1] * img.w) \div nw, (q[2] * img.h) \div nh>>]]]

Thumbnail(img, size) ==
    LET ns == ThumbnailSize(size, img.w, img.h)
    IN  IF ns = <<img.w, img.h>> THEN img ELSE Resize(img, ns[1], ns[2])

\* x = (image_size - img.width) // 2, y = (image_size - img.height) // 2
OffsetX(img, size) == (size - img.w) \div 2
OffsetY(img, size) == (size - img.h) \div 2

\* Image.new('RGB', (size, size), white) with img pasted at the centring offsets
Centered(img, size) ==
    LET x == OffsetX(img, size)
        y == OffsetY(img, size)
    IN  [w |-> size, h |-> size,
         px |-> [q \in (0..(size - 1)) \X (0..(size - 1)) |->
                    IF q[1] \in x..(x + img.w - 1) /\ q[2] \in y..(y + img.h - 1)
                    THEN img.px[<<q[1] - x, q[2] - y>>]
                    ELSE White]]

\* JPEG as a lossy codec: each horizontal pair of pixels is transformed to
\* its sum and difference, both are quantised, and decoding clamps the
\* rounded inverse to 0..255.  <<step of the sum, step of the difference>>
JpegQuant == <<2, 8>>

JpegPair(a, b) ==
    LET s == RoundDiv(a + b, JpegQuant[1]) * JpegQuant[1]
        d == RoundDiv(a - b, JpegQuant[2]) * JpegQuant[2]
    IN  <<Clamp(RoundDiv(s + d, 2)), Clamp(RoundDiv(s - d, 2))>>

\* what Image.open reads back from a file written by save(..., 'JPEG')
JpegRoundTrip(img) ==
    [img EXCEPT !.px =
        [q \in DOMAIN img.px |->
            LET x0 == q[1] - (q[1] % 2)
                x1 == Min(x0 + 1, img.w - 1)
                pair == JpegPair(img.px[<<x0, q[2]>>], img.px[<<x1, q[2]>>])
            IN  IF q[1] = x0 THEN pair[1] ELSE pair[2]]]

\* new_img.save(img_path): the format follows the extension, PNG is lossless
SavedAs(name, img) ==
    IF Suffix(name) = <<DOT, "jpg">> THEN JpegRoundTrip(img) ELSE img

\* the body of the loop over image_files
NormalizedFile(name, img) == SavedAs(name, Centered(Thumbnail(img, ImageSize), ImageSize))

\* a file whose bytes are no image: Image.open raises on it
Unreadable == [w |-> 0, h |-> 0, px |-> <<>>]
Opens(img) == img # Unreadable

\* the files of one split whose try block runs to the end, and those whose
\* exception is caught and printed
Processed(dir) == {n \in ImageFiles(DOMAIN dir) : Opens(dir[n])}
FailedIn(dir) == ImageFiles(DOMAIN dir) \ Processed(dir)

\* the loop over image_files: a file that raised is left as it was
NormalizedDir(dir) ==
    [n \in DOMAIN dir |->
        IF n \in Processed(dir) THEN NormalizedFile(n, dir[n]) ELSE dir[n]]

\* img.width, img.height after thumbnail, and the offsets x, y of the paste
Placed(dir) ==
    [n \in Processed(dir) |->
        LET t == Thumbnail(dir[n], ImageSize)
        IN  [w |-> t.w, h |-> t.h, x |-> OffsetX(t, ImageSize), y |-> OffsetY(t, ImageSize)]]

\* print(f"Preprocessed {len(image_files)} {split} images")
PrintedCount(dir) == Cardinality(ImageFiles(DOMAIN dir))

\* one iteration of the loop over the splits
SplitReport(dir) ==
    [input |-> dir, output |-> NormalizedDir(dir), errors |-> FailedIn(dir),
     placed |-> Placed(dir), printed |-> PrintedCount(dir)]

\* one call of preprocess_images
Preprocess ==
    /\ Len(prepLog) < MaxPasses
    /\ trainImages' = NormalizedDir(trainImages)
    /\ valImages' = NormalizedDir(valImages)
    /\ prepLog' = Append(prepLog, [train |-> NormalizedDir(trainImages),
                                   val |-> NormalizedDir(valImages),
                                   trainRun |-> SplitReport(trainImages),
                                   valRun |-> SplitReport(valImages)])
    /\ UNCHANGED <<collectVars, trainLabels, valLabels, adapterVars, evalVars, vocabVars, inferVars, toolVars>>

\* images the preprocessor is tried on: two-valued checkerboards of sizes
\* that fit the canvas and that exceed it
PixVals == {2, White}
InputSizes == { <<1, 1>>, <<ImageSize, 1>>, <<ImageSize, ImageSize>>,
                <<ImageSize + 1, ImageSize>>, <<1, ImageSize + 2>> }
InputImages ==
    { [w |-> sz[1], h |-> sz[2],
       px |-> [q \in (0..(sz[1] - 1)) \X (0..(sz[2] - 1)) |->
                  IF (q[1] + q[2]) % 2 = 0 THEN c[1] ELSE c[2]]] :
      sz \in InputSizes, c \in PixVals \X PixVals }

InitPreprocess ==
    /\ rawExists = TRUE
    /\ rawDir = {}
    /\ bankExists = TRUE
    /\ questions = <<>>
    /\ runLog = <<>>
    /\ trainImages \in [{<<"p", DOT, "png">>, <<"q", DOT, "jpg">>} -> InputImages \cup {Unreadable}]
    /\ valImages \in [{<<"b", DOT, "jpg">>} -> {i \in InputImages : i.w = 1 /\ i.h = 1} \cup {Unreadable}]
    /\ trainLabels = NoFile
    /\ valLabels = NoFile
    /\ AdapterIdle
    /\ VocabIdle
    /\ prepLog = <<>>
    /\ infLog = <<>>
    /\ ToolsIdle
    /\ EvalIdle

NextPreprocess == Preprocess

SpecPreprocess == InitPreprocess /\ [][NextPreprocess]_vars

---------------------------------------------------------------------------
(* Claims about the preprocessor *)

\* C8: a second preprocess_images call leaves every stored image, .png or
\* .jpg, as the first call left it
C8_NormalizeIdempotent ==
    Len(prepLog) >= 2 => prepLog[2].train = prepLog[1].train /\ prepLog[2].val = prepLog[1].val


---------------------------------------------------------------------------
(* 04_evaluate.py *)

RECURSIVE LevenshteinNoSubstitution(_, _)
\* an edit distance in which a changed character counts as a deletion and an insertion
LevenshteinNoSubstitution(a, b) ==
    IF Len(a) = 0 THEN Len(b)
    ELSE IF Len(b) = 0 THEN Len(a)
    ELSE Min(Min(LevenshteinNoSubstitution(Tail(a), b) + 1,
                 LevenshteinNoSubstitution(a, Tail(b)) + 1),
             LevenshteinNoSubstitution(Tail(a), Tail(b)) + (IF a[1] = b[1] THEN 0 ELSE 2))

RECURSIVE Levenshtein(_, _)
\* the number of character edits jiwer counts between two strings
Levenshtein(a, b) ==
    IF Len(a) = 0 THEN Len(b)
    ELSE IF Len(b) = 0 THEN Len(a)
    ELSE Min(Min(Levenshtein(Tail(a), b) + 1, Levenshtein(a, Tail(b)) + 1),
             Levenshtein(Tail(a), Tail(b)) + (IF a[1] = b[1] THEN 0 ELSE 1))

\* jiwer's character transform strips a sentence before it is split in characters
CerChars(text) == Strip(text, Whitespace)

RECURSIVE TotalEdits(_, _)
TotalEdits(refs, hyps) ==
    IF Len(refs) = 0 THEN 0
    ELSE Levenshtein(CerChars(refs[1]), CerChars(hyps[1])) + TotalEdits(Tail(refs), Tail(hyps))

RECURSIVE TotalChars(_)
TotalChars(refs) ==
    IF Len(refs) = 0 THEN 0 ELSE Len(CerChars(refs[1])) + TotalChars(Tail(refs))

CerError == [err |-> TRUE, num |-> 0, den |-> 1]
CerRate(n, d) == [err |-> FALSE, num |-> n, den |-> d]

RECURSIVE SumOfPairRates(_, _)
\* the per-pair rates edits / reference characters added up, as [num, den]
SumOfPairRates(refs, hyps) ==
    IF Len(refs) = 0 THEN [num |-> 0, den |-> 1]
    ELSE LET rest == SumOfPairRates(Tail(refs), Tail(hyps))
             e == Levenshtein(CerChars(refs[1]), CerChars(hyps[1]))
             n == Len(CerChars(refs[1]))
         IN  [num |-> e * rest.den + rest.num * n, den |-> n * rest.den]

\* cer returning the mean of the per-pair rates
CerOutcomesMeanOfPairs(refs, hyps) ==
    IF Len(refs) # Len(hyps) THEN {CerError}
    ELSE IF TotalChars(refs) = 0 THEN {CerError, CerRate(TotalEdits(refs, hyps), 1)}
    ELSE {CerRate(SumOfPairRates(refs, hyps).num, SumOfPairRates(refs, hyps).den * Len(refs))}

\* what cer(references, predictions) can do on two lists of strings: a
\* ValueError when the lengths differ; edits / reference characters
\* otherwise; with no reference character at all, an exception in the jiwer
\* releases that reject it (ZeroDivisionError or ValueError) and the edits
\* undivided in one that accepts it
CerOutcomes(refs, hyps) ==
    IF Len(refs) # Len(hyps) THEN {CerError}
    ELSE IF TotalChars(refs) = 0 THEN {CerError, CerRate(TotalEdits(refs, hyps), 1)}
    ELSE {CerRate(TotalEdits(refs, hyps), TotalChars(refs))}

RECURSIVE NonEmpty(_)
NonEmpty(parts) ==
    IF Len(parts) = 0 THEN <<>>
    ELSE (IF Len(parts[1]) = 0 THEN <<>> ELSE <<parts[1]>>) \o NonEmpty(Tail(parts))

\* jiwer's word transform: the sentence stripped and split on spaces, runs
\* of spaces counting as one
WerWords(text) == NonEmpty(SplitOn(Strip(text, Whitespace), SP))

RECURSIVE TotalWordEdits(_, _)
TotalWordEdits(refs, hyps) ==
    IF Len(refs) = 0 THEN 0
    ELSE Levenshtein(WerWords(refs[1]), WerWords(hyps[1]))
         + TotalWordEdits(Tail(refs), Tail(hyps))

RECURSIVE TotalWords(_)
TotalWords(refs) ==
    IF Len(refs) = 0 THEN 0 ELSE Len(WerWords(refs[1])) + TotalWords(Tail(refs))

\* wer(references, predictions): as cer, over words
WerOutcomes(refs, hyps) ==
    IF Len(refs) # Len(hyps) THEN {CerError}
    ELSE IF TotalWords(refs) = 0 THEN {CerError, CerRate(TotalWordEdits(refs, hyps), 1)}
    ELSE {CerRate(TotalWordEdits(refs, hyps), TotalWords(refs))}

\* a <= b for two rates [num, den].  The code compares the floats n1/d1 and
\* n2/d2; with the denominators used here two different rates are further
\* apart than a float's rounding, so the floats compare as the fractions do
LeqRate(a, b) == a.num * b.den <= b.num * a.den

RECURSIVE InsertByCer(_, _)
\* e put behind every entry whose CER is at least its own
InsertByCer(sorted, e) ==
    IF Len(sorted) = 0 THEN <<e>>
    ELSE IF LeqRate(e.cer, sorted[1].cer) THEN <<sorted[1]>> \o InsertByCer(Tail(sorted), e)
    ELSE <<e>> \o sorted

\* the list left in the order of the loop
SortByCerSkipped(list) == list

RECURSIVE SortByCer(_)
\* errors.sort(key=lambda x: x[3], reverse=True): stable, largest CER first
SortByCer(list) ==
    IF Len(list) = 0 THEN <<>>
    ELSE InsertByCer(SortByCer(SubSeq(list, 1, Len(list) - 1)), list[Len(list)])

\* errors[:10]
TopCount == 10
TopErrors(list) == SubSeq(list, 1, Min(TopCount, Len(list)))

\* the comparison made strict
MeetsTargetStrict(overall, target) == overall.num * target.den < target.num * overall.den

\* if overall_cer <= target_cer
MeetsTarget(overall, target) == LeqRate(overall, target)

\* values config.yaml gives evaluation.target_cer
Targets == { [num |-> 1, den |-> 10], [num |-> 1, den |-> 2] }

\* a file that Image.open cannot read
CorruptContent == [raw |-> <<>>]
Loadable(dir, name) == name \in DOMAIN dir /\ dir[name] # CorruptContent

\* texts the model may generate for an image
Hypotheses == { <<"7">>, <<"1", "3">>, <<>>, <<"1", SP, "2">> }

\* the ways the try block can go for one sample: raised says which call
\* raised ("load": Image.open, "predict": the processor or model.generate,
\* "score": the per-sample cer, "none")
SampleRuns(dir, name, label) ==
    IF ~Loadable(dir, name)
    THEN {[raised |-> "load", text |-> <<>>, cer |-> CerError]}
    ELSE {[raised |-> "predict", text |-> <<>>, cer |-> CerError]}
         \cup UNION { {[raised |-> IF c.err THEN "score" ELSE "none", text |-> h, cer |-> c] :
                         c \in CerOutcomes(<<label>>, <<h>>)} : h \in Hypotheses }

\* references.append(true_label) moved above the prediction
ReferenceAppendedEarly(run) == run.raised \in {"none", "score", "predict"}

\* predictions.append and references.append are reached when neither the
\* load nor the prediction raised
PredictionAppended(run) == run.raised \in {"none", "score"}
ReferenceAppended(run) == run.raised \in {"none", "score"}

Texts(list) == [i \in 1..Len(list) |-> list[i].text]

\* evaluate_model up to the loop: the model directory check and the labels
EvalStart ==
    /\ evPc = "idle"
    /\ IF ~modelDir
       THEN evPc' = "returned" /\ UNCHANGED evLabels
       ELSE IF ~valLabels.exists
       THEN evPc' = "failed_open" /\ UNCHANGED evLabels
       ELSE evPc' = "loop" /\ evLabels' = ReadLabels(valLabels.text)
    /\ UNCHANGED <<modelDir, evI, predictions, references, errors, evPrinted, overallCer>>
    /\ UNCHANGED <<overallWer, targetCer, worst, verdict>>
    /\ UNCHANGED <<collectVars, dataVars, adapterVars, prepVars, vocabVars, inferVars, toolVars>>

\* the lists after the try block went as run for row k
AfterSample(st, k, name, label, run) ==
    [predictions |-> IF PredictionAppended(run)
                     THEN Append(st.predictions, [sample |-> k, text |-> run.text])
                     ELSE st.predictions,
     references |-> IF ReferenceAppended(run)
                    THEN Append(st.references, [sample |-> k, text |-> label])
                    ELSE st.references,
     errors |-> IF run.raised = "none" /\ run.cer.num > 0
                THEN Append(st.errors, [sample |-> k, name |-> name, label |-> label,
                                        pred |-> run.text, cer |-> run.cer])
                ELSE st.errors,
     printed |-> IF run.raised # "none" THEN Append(st.printed, k) ELSE st.printed]

\* one iteration of the loop over labels
EvalSample ==
    /\ evPc = "loop"
    /\ evI < Len(evLabels)
    /\ LET k == evI + 1
           name == evLabels[k][1]
           label == evLabels[k][2]
           st == [predictions |-> predictions, references |-> references,
                  errors |-> errors, printed |-> evPrinted]
       IN  \E run \in SampleRuns(valImages, name, label) :
             /\ predictions' = AfterSample(st, k, name, label, run).predictions
             /\ references' = AfterSample(st, k, name, label, run).references
             /\ errors' = AfterSample(st, k, name, label, run).errors
             /\ evPrinted' = AfterSample(st, k, name, label, run).printed
    /\ evI' = evI + 1
    /\ UNCHANGED <<evPc, modelDir, evLabels, overallCer>>
    /\ UNCHANGED <<overallWer, targetCer, worst, verdict>>
    /\ UNCHANGED <<collectVars, dataVars, adapterVars, prepVars, vocabVars, inferVars, toolVars>>

\* the code after the loop: overall_cer and overall_wer, computed outside any
\* try block, the results, the worst predictions and the target check
EvalAggregate ==
    /\ evPc = "loop"
    /\ evI = Len(evLabels)
    /\ \E c \in CerOutcomes(Texts(references), Texts(predictions)),
          w \in WerOutcomes(Texts(references), Texts(predictions)) :
         IF c.err \/ w.err
         THEN evPc' = "failed_metric" /\ UNCHANGED <<overallCer, overallWer, errors, worst, verdict>>
         ELSE /\ evPc' = "done"
              /\ overallCer' = [num |-> c.num, den |-> c.den]
              /\ overallWer' = [num |-> w.num, den |-> w.den]
              /\ errors' = SortByCer(errors)
              /\ worst' = TopErrors(SortByCer(errors))
              /\ verdict' = IF MeetsTarget([num |-> c.num, den |-> c.den], targetCer)
                            THEN "meets" ELSE "above"
    /\ UNCHANGED <<modelDir, evLabels, evI, predictions, references, evPrinted, targetCer>>
    /\ UNCHANGED <<collectVars, dataVars, adapterVars, prepVars, vocabVars, inferVars, toolVars>>

\* the ways a run of 05_inference.py on data/val/images/<name> can go, by
\* the line that ends it, and the exit status of the process
InferenceRuns(dir, model, name) ==
    IF name \notin DOMAIN dir
    THEN {[given |-> TRUE, image |-> name, outcome |-> "no_image", text |-> <<>>, exit |-> 1]}
    ELSE IF ~model
    THEN {[given |-> TRUE, image |-> name, outcome |-> "no_model", text |-> <<>>, exit |-> 1]}
    ELSE IF ~Loadable(dir, name)
    THEN {[given |-> TRUE, image |-> name, outcome |-> "failed_load", text |-> <<>>, exit |-> 1]}
    ELSE {[given |-> TRUE, image |-> name, outcome |-> "failed_predict", text |-> <<>>, exit |-> 1]}
         \cup {[given |-> TRUE, image |-> name,
                outcome |-> IF Len(h) = 0 THEN "empty" ELSE "recognized",
                text |-> h,
                exit |-> IF Len(h) = 0 THEN 1 ELSE 0] : h \in Hypotheses}

\* the run without an argument: the usage lines and sys.exit(1)
UsageRun == [given |-> FALSE, image |-> <<>>, outcome |-> "usage", text |-> <<>>, exit |-> 1]

\* file names given to 05_inference.py
InferenceNames == { <<"p", DOT, "png">>, <<"q", DOT, "jpg">> }

\* one run of 05_inference.py, before the evaluation is started
Inference ==
    /\ evPc = "idle"
    /\ Len(infLog) < MaxInferences
    /\ \E run \in {UsageRun} \cup UNION {InferenceRuns(valImages, modelDir, n) : n \in InferenceNames} :
         infLog' = Append(infLog, run)
    /\ UNCHANGED <<collectVars, dataVars, adapterVars, prepVars, evalVars, vocabVars, toolVars>>

\* the exit status of 04_evaluate.py: 1 when an exception ended it, 0 when
\* evaluate_model returned
EvalExit == IF evPc \in {"failed_open", "failed_metric"} THEN 1 ELSE 0

\* the exit status of 01_collect_data.py
CollectExit(e) == IF e.outcome = "failed_bank" THEN 1 ELSE 0

\* validation sets the evaluation is tried on
EvNames == { <<"p", DOT, "png">>, <<"q", DOT, "jpg">> }
EvRow == [path : EvNames, label : { <<"7">>, <<"1", "2">> }, category : {<<"a">>}]
EvData ==
    {d \in UNION {[1..n -> EvRow] : n \in 0..MaxRows} :
        \A i, j \in 1..Len(d) : d[i].path = d[j].path => i = j}
EvDirs ==
    UNION { {[n \in D |-> IF n \in C THEN CorruptContent ELSE RawContent(n)] : C \in SUBSET D} :
            D \in SUBSET EvNames }

InitEval ==
    /\ rawExists = TRUE
    /\ rawDir = {}
    /\ bankExists = TRUE
    /\ questions = <<>>
    /\ runLog = <<>>
    /\ trainImages = <<>>
    /\ valImages \in EvDirs
    /\ trainLabels = NoFile
    /\ valLabels \in {NoFile} \cup {File(LabelsText(d)) : d \in EvData}
    /\ AdapterIdle
    /\ VocabIdle
    /\ prepLog = <<>>
    /\ infLog = <<>>
    /\ ToolsIdle
    /\ evPc = "idle"
    /\ modelDir \in BOOLEAN
    /\ evLabels = <<>>
    /\ evI = 0
    /\ predictions = <<>>
    /\ references = <<>>
    /\ errors = <<>>
    /\ evPrinted = <<>>
    /\ overallCer = [num |-> 0, den |-> 1]
    /\ overallWer = [num |-> 0, den |-> 1]
    /\ targetCer \in Targets
    /\ worst = <<>>
    /\ verdict = "none"

NextEval == EvalStart \/ EvalSample \/ EvalAggregate \/ Inference

SpecEval == InitEval /\ [][NextEval]_vars

---------------------------------------------------------------------------
(* Long evaluations: the loop has gone through up to MaxSamples rows, each *)
(* image loaded and read as one of two texts                               *)

ManyName(k) == <<"p">> \o StrOfNat(k) \o <<DOT, "png">>
ManyLabel(k) == IF k % 2 = 1 THEN <<"7">> ELSE <<"1", "2">>
ManyRows(n) == [k \in 1..n |-> [path |-> ManyName(k), label |-> ManyLabel(k), category |-> <<"a">>]]
ManyImages(n) == [f \in {ManyName(k) : k \in 1..n} |-> RawContent(f)]
ManyHypotheses == { <<"7">>, <<"1", "3">> }

\* the try block of a sample completing with the text h: the member of
\* SampleRuns that raised nothing and read h
RunReading(label, h) ==
    [raised |-> "none", text |-> h,
     cer |-> CHOOSE c \in CerOutcomes(<<label>>, <<h>>) : ~c.err]

RECURSIVE LoopAfter(_, _, _)
\* the lists after the first k rows, row i read as hyps[i]
LoopAfter(rows, hyps, k) ==
    IF k = 0
    THEN [predictions |-> <<>>, references |-> <<>>, errors |-> <<>>, printed |-> <<>>]
    ELSE AfterSample(LoopAfter(rows, hyps, k - 1), k, rows[k].path, rows[k].label,
                     RunReading(rows[k].label, hyps[k]))

InitEvalMany ==
    /\ rawExists = TRUE
    /\ rawDir = {}
    /\ bankExists = TRUE
    /\ questions = <<>>
    /\ runLog = <<>>
    /\ trainImages = <<>>
    /\ trainLabels = NoFile
    /\ AdapterIdle
    /\ VocabIdle
    /\ prepLog = <<>>
    /\ infLog = <<>>
    /\ ToolsIdle
    /\ modelDir = TRUE
    /\ \E n \in 0..MaxSamples :
         /\ valImages = ManyImages(n)
         /\ valLabels = File(LabelsText(ManyRows(n)))
         /\ evLabels = ReadLabels(LabelsText(ManyRows(n)))
         /\ evI = n
         /\ \E hyps \in [1..n -> ManyHypotheses] :
              LET st == LoopAfter(ManyRows(n), hyps, n)
              IN  /\ predictions = st.predictions
                  /\ references = st.references
                  /\ errors = st.errors
                  /\ evPrinted = st.printed
    /\ evPc = "loop"
    /\ overallCer = [num |-> 0, den |-> 1]
    /\ overallWer = [num |-> 0, den |-> 1]
    /\ worst = <<>>
    /\ verdict = "none"
    /\ targetCer \in Targets

NextEvalMany == EvalAggregate

SpecEvalMany == InitEvalMany /\ [][NextEvalMany]_vars

---------------------------------------------------------------------------
(* Claims about the evaluation *)

Failed(k) == \E i \in 1..Len(evPrinted) : evPrinted[i] = k
Scored(list, k) == \E i \in 1..Len(list) : list[i].sample = k

\* C9: a sample whose load, prediction or scoring raised is reported, gives
\* the metric neither a reference nor a hypothesis, and the evaluation does
\* not end by an exception of the metric computation, whichever samples fail
C9_FailuresAbsorbed ==
    /\ Len(evPrinted) > 0 => evPc # "failed_metric"
    /\ \A k \in 1..evI :
          Failed(k) => ~Scored(references, k) /\ ~Scored(predictions, k)
    /\ \A k \in 1..evI : Failed(k) \/ (Scored(references, k) /\ Scored(predictions, k))

\* C10: references and predictions have the same length and their entries
\* at the same index come from the same validation sample, the reference
\* being that sample's label, at every point up to and including the
\* aggregate computation
C10_ListsAligned ==
    /\ Len(references) = Len(predictions)
    /\ \A i \in 1..Len(references) :
          /\ i <= Len(predictions)
          /\ references[i].sample = predictions[i].sample
          /\ references[i].text = evLabels[references[i].sample][2]
    /\ \A i, j \in 1..Len(references) : i < j => references[i].sample < references[j].sample

C10_Witness ==
    /\ evPc = "done"
    /\ Len(evLabels) = 2
    /\ Len(predictions) = 1
    /\ predictions[1].sample = 2
    /\ Len(evPrinted) = 1


AtDone == evPc = "done"

\* C11: the target line reports "meets" exactly when the aggregate CER is at
\* most target_cer, equality included; 0.08 against 0.10 meets, 0.12 against
\* 0.10 does not
C11_TargetInclusive ==
    /\ MeetsTarget([num |-> 2, den |-> 25], [num |-> 1, den |-> 10])
    /\ ~MeetsTarget([num |-> 3, den |-> 25], [num |-> 1, den |-> 10])
    /\ MeetsTarget([num |-> 1, den |-> 10], [num |-> 1, den |-> 10])
    /\ AtDone => /\ verdict \in {"meets", "above"}
                 /\ verdict = "meets" <=>
                        overallCer.num * targetCer.den <= targetCer.num * overallCer.den
    /\ ~AtDone => verdict = "none"

\* an evaluation whose aggregate CER equals the target, reported as meeting it
C11_Witness ==
    /\ AtDone
    /\ Len(predictions) > 0
    /\ overallCer.num > 0
    /\ overallCer.num * targetCer.den = targetCer.num * overallCer.den
    /\ verdict = "meets"

\* edits and reference length of the k-th scored pair, in characters and in words
PairEdits(k) == Levenshtein(references[k].text, predictions[k].text)
PairLength(k) == Len(references[k].text)
PairWordEdits(k) == Levenshtein(WerWords(references[k].text), WerWords(predictions[k].text))
PairWords(k) == Len(WerWords(references[k].text))

RECURSIVE SumUpTo(_, _)
SumUpTo(F(_), n) == IF n = 0 THEN 0 ELSE F(n) + SumUpTo(F, n - 1)

RECURSIVE RateSumUpTo(_)
\* the per-sample CERs of the first n scored pairs added up, as [num, den]
RateSumUpTo(n) ==
    IF n = 0 THEN [num |-> 0, den |-> 1]
    ELSE LET r == RateSumUpTo(n - 1)
         IN  [num |-> r.num * PairLength(n) + PairEdits(n) * r.den, den |-> r.den * PairLength(n)]

\* the mean of the per-sample CERs of the scored pairs
MeanCer ==
    [num |-> RateSumUpTo(Len(references)).num,
     den |-> RateSumUpTo(Len(references)).den * Len(references)]

\* C12: the CER compared with the target is the edits of all scored pairs
\* over the reference characters of all scored pairs, the WER the word edits
\* over the reference words; the verdict follows that rate, not the mean of
\* the per-sample CERs
C12_AggregateNotMean ==
    (AtDone /\ Len(references) > 0) =>
        LET n == Len(references)
        IN  /\ overallCer.num * SumUpTo(PairLength, n) = SumUpTo(PairEdits, n) * overallCer.den
            /\ overallWer.num * SumUpTo(PairWords, n) = SumUpTo(PairWordEdits, n) * overallWer.den
            /\ verdict = "meets" <=>
                   SumUpTo(PairEdits, n) * targetCer.den <= targetCer.num * SumUpTo(PairLength, n)

\* an evaluation reported above the target whose mean per-sample CER is within it
C12_Witness ==
    /\ AtDone
    /\ Len(references) = 2
    /\ verdict = "above"
    /\ MeanCer.num * targetCer.den <= targetCer.num * MeanCer.den

ErrorOf(k) == {i \in 1..Len(errors) : errors[i].sample = k}

\* C13: the CER recorded for a sample is the edits between its label and the
\* generated text over the length of the label, a sample being recorded when
\* that is above 0; label "12" read as "13" is recorded with 1/2
C13_PerSampleCer ==
    /\ \A i \in 1..Len(errors) :
          LET e == errors[i]
          IN  /\ e.label = evLabels[e.sample][2]
              /\ e.cer.num * Len(e.label) = Levenshtein(e.label, CerChars(e.pred)) * e.cer.den
              /\ e.cer.num > 0
              /\ (e.label = <<"1", "2">> /\ e.pred = <<"1", "3">>) => 2 * e.cer.num = e.cer.den
    /\ \A k \in 1..Len(references) :
          LET s == references[k].sample
          IN  /\ Cardinality(ErrorOf(s)) <= 1
              /\ (ErrorOf(s) = {}) <=> (CerChars(predictions[k].text) = references[k].text)

C13_Witness ==
    \E i \in 1..Len(errors) :
        /\ errors[i].label = <<"1", "2">>
        /\ errors[i].pred = <<"1", "3">>
        /\ errors[i].cer.num = 1
        /\ errors[i].cer.den = 2


\* scored samples whose text differs from the label
WithError == {k \in 1..Len(references) : CerChars(predictions[k].text) # references[k].text}
Samples(list) == {list[i].sample : i \in 1..Len(list)}

\* C14: the worst predictions printed are in order of non-increasing CER,
\* are min(10, scored samples with an error) different samples with an error,
\* and no sample with an error left out has a larger CER than one printed
C14_WorstErrors ==
    AtDone =>
        /\ Len(worst) = Min(10, Cardinality(WithError))
        /\ \A i, j \in 1..Len(worst) : i < j =>
               /\ worst[j].cer.num * worst[i].cer.den <= worst[i].cer.num * worst[j].cer.den
               /\ worst[i].sample # worst[j].sample
        /\ \A i \in 1..Len(worst) :
               /\ \E k \in WithError : references[k].sample = worst[i].sample
               /\ \E j \in 1..Len(errors) : errors[j] = worst[i]
        /\ \A j \in 1..Len(errors) :
               errors[j].sample \notin Samples(worst) =>
                   \A i \in 1..Len(worst) :
                       errors[j].cer.num * worst[i].cer.den <= worst[i].cer.num * errors[j].cer.den

\* eleven samples with an error, of different CERs, ten of them printed
C14_Witness ==
    /\ AtDone
    /\ Cardinality(WithError) = 11
    /\ Len(worst) = 10
    /\ worst[1].cer.num = 2 * worst[1].cer.den
    /\ 2 * worst[10].cer.num = worst[10].cer.den


---------------------------------------------------------------------------
(* 07_create_pix2tex_dataset.py *)

RECURSIVE StrippedNonBlank(_)
\* [line.strip() for line in f if line.strip()]
StrippedNonBlank(lines) ==
    IF Len(lines) = 0 THEN <<>>
    ELSE (IF Len(Strip(lines[1], Whitespace)) = 0 THEN <<>> ELSE <<Strip(lines[1], Whitespace)>>)
         \o StrippedNonBlank(Tail(lines))

\* the equations read from one equations file, none when it does not exist
EquationLines(file) == IF file.exists THEN StrippedNonBlank(FileLines(file.text)) ELSE <<>>

\* special_tokens of the BpeTrainer
SpecialTokens == <<"[PAD]", "[BOS]", "[EOS]">>

\* the vocabulary train_from_iterator gives: the special tokens and the
\* characters of the equations (the merged pairs are left out)
TrainedVocab(equations) ==
    Range(SpecialTokens) \cup UNION {Range(equations[i]) : i \in 1..Len(equations)}

\* the tokenizer trained anew on every call
TokenizerRebuilt(tok, equations) ==
    IF Len(equations) = 0 THEN tok ELSE [exists |-> TRUE, vocab |-> TrainedVocab(equations)]

\* tokenizer.json after the block of lines 18-55
TokenizerAfter(tok, equations) ==
    IF tok.exists THEN tok
    ELSE IF Len(equations) = 0 THEN tok
    ELSE [exists |-> TRUE, vocab |-> TrainedVocab(equations)]

\* create_dataset(split_name): the pickle is written unless the equations
\* file or the images directory is missing or Im2LatexDataset raised
PklAfter(pkl, eqFile, imagesDirExists, tok, raised) ==
    IF ~eqFile.exists \/ ~imagesDirExists \/ raised THEN pkl
    ELSE [exists |-> TRUE, equations |-> SplitOn(eqFile.text, NL), vocab |-> tok.vocab]

\* one call of create_pix2tex_datasets
CreateDatasets ==
    /\ builds < MaxBuilds
    /\ LET equations == EquationLines(trainEqFile) \o EquationLines(valEqFile)
           tok == TokenizerAfter(tokenizerFile, equations)
       IN  /\ tokenizerFile' = tok
           /\ IF ~tokenizerFile.exists /\ Len(equations) = 0
              THEN UNCHANGED <<trainPkl, valPkl>>
              ELSE \E trainRaised, valRaised \in BOOLEAN :
                     /\ trainPkl' = PklAfter(trainPkl, trainEqFile, adPc = "done", tok, trainRaised)
                     /\ valPkl' = PklAfter(valPkl, valEqFile, adPc = "done", tok, valRaised)
    /\ builds' = builds + 1
    /\ UNCHANGED <<collectVars, dataVars, adapterVars, prepVars, evalVars, inferVars, toolVars>>

\* label files the collector may have left for the adapter
VocabNames == { <<"p", DOT, "png">>, <<"q", DOT, "jpg">> }
VocabLabels == { <<"7">>, <<"x", "^", "2">>, <<LB, RB>> }
VocabRow == [path : VocabNames, label : VocabLabels, category : {<<"a">>}]
VocabData ==
    {d \in UNION {[1..n -> VocabRow] : n \in 0..MaxRows} :
        \A i, j \in 1..Len(d) : d[i].path = d[j].path => i = j}
VocabLabelFiles == {NoFile} \cup {File(LabelsText(d)) : d \in VocabData}

\* a new collection rewrites data/train/labels.txt, and the adapter is run again
CollectAgain ==
    /\ adPc = "done"
    /\ builds < MaxBuilds
    /\ trainLabels' \in VocabLabelFiles \ {trainLabels}
    /\ adPc' = "idle"
    /\ UNCHANGED <<collectVars, trainImages, valImages, valLabels, prepVars, evalVars, vocabVars, inferVars, toolVars>>
    /\ UNCHANGED <<pixTrainImages, pixValImages, trainEquations, valEquations,
                   trainEqFile, valEqFile>>

InitVocab ==
    /\ rawExists = TRUE
    /\ rawDir = {}
    /\ bankExists = TRUE
    /\ questions = <<>>
    /\ runLog = <<>>
    /\ trainLabels \in VocabLabelFiles
    /\ trainImages = [n \in VocabNames |-> RawContent(n)]
    /\ valLabels = NoFile
    /\ valImages = <<>>
    /\ AdapterIdle
    /\ VocabIdle
    /\ prepLog = <<>>
    /\ infLog = <<>>
    /\ ToolsIdle
    /\ EvalIdle

NextVocab == PrepareData \/ CreateDatasets \/ CollectAgain

SpecVocab == InitVocab /\ [][NextVocab]_vars

---------------------------------------------------------------------------
(* Claims about the vocabulary builder *)

\* C15: no step changes a tokenizer.json that exists, whatever the equations
\* files hold when create_pix2tex_datasets is called
C15_VocabularyKept ==
    [][tokenizerFile.exists => tokenizerFile' = tokenizerFile]_vars

\* a second build has run over equations the kept vocabulary was not trained on
C15_Witness ==
    /\ builds = 2
    /\ tokenizerFile.exists
    /\ Len(EquationLines(trainEqFile)) > 0
    /\ tokenizerFile.vocab # TrainedVocab(EquationLines(trainEqFile) \o EquationLines(valEqFile))
    /\ trainPkl.exists
    /\ trainPkl.vocab = tokenizerFile.vocab


---------------------------------------------------------------------------
(* Claims about setup errors *)

\* the files and directories the stages write
outputFiles ==
    <<trainImages, valImages, trainLabels, valLabels, pixTrainImages, pixValImages,
      trainEqFile, valEqFile, tokenizerFile, trainPkl, valPkl>>

\* a collector call ended by the missing question bank
CollectorAborts ==
    /\ Len(runLog') = Len(runLog) + 1
    /\ runLog'[Len(runLog')].outcome = "failed_bank"

\* an adapter call that found a labels file missing
AdapterLacksLabels ==
    /\ adPc = "idle"
    /\ adPc' = "done"
    /\ ~trainLabels.exists \/ ~valLabels.exists

\* an evaluation ended by the missing model or the missing labels file
EvaluationAborts ==
    /\ evPc = "idle"
    /\ evPc' \in {"returned", "failed_open"}

\* C18: a collector call that lacks the question bank, an adapter call that
\* lacks a labels file and an evaluation that lacks the model or the labels
\* file leave every file and directory as it was before the call
C18_NoPartialOutput ==
    [][(CollectorAborts \/ AdapterLacksLabels \/ EvaluationAborts) => UNCHANGED outputFiles]_vars


\* a collector call ended by an exception
Fatal(e) == e.outcome = "failed_bank"

\* C19: a collector call is fatal only when written_answers/ is missing; a
\* call over an existing directory without image files is not fatal and
\* leaves both label files, with no row
C19_EmptyRawDir ==
    \A r \in 1..Len(runLog) :
        /\ Fatal(runLog[r]) => ~rawExists
        /\ (rawExists /\ ImageFiles(runLog[r].input) = {}) =>
              /\ ~Fatal(runLog[r])
              /\ trainLabels.exists /\ valLabels.exists
              /\ r = Len(runLog) => RowsIn(trainLabels) = <<>> /\ RowsIn(valLabels) = <<>>


EvalEnded == evPc \in {"done", "returned", "failed_open", "failed_metric"}

\* C20: a stage exits with a non-zero status exactly when a file or
\* directory it requires is missing: the evaluation when the model directory
\* or the labels file is, the inference when the image or the model is, the
\* collector when written_answers/ or questions.json is; failed samples and
\* an empty recognized text leave the status 0
C20_ExitStatus ==
    /\ EvalEnded => (EvalExit # 0 <=> (~modelDir \/ ~valLabels.exists))
    /\ \A i \in 1..Len(infLog) :
          infLog[i].given =>
              (infLog[i].exit # 0 <=> (infLog[i].image \notin DOMAIN valImages \/ ~modelDir))
    /\ \A r \in 1..Len(runLog) :
          CollectExit(runLog[r]) # 0 <=>
              (~rawExists \/ (~bankExists /\ ImageFiles(runLog[r].input) # {}))

---------------------------------------------------------------------------
(* Files the collector leaves out *)

\* the files a run copied into a split
CollectedBy(e) == Paths(e.train) \cup Paths(e.val)

\* the run entered the loop over images
LoopEntered(e) == e.outcome \in {"no_pairs", "done"}

\* C21: every image file a collector run does not collect is reported by a
\* warning of that run, whether its name is malformed or its category or id
\* is missing from the question bank
C21_SkipsReported ==
    \A r \in 1..Len(runLog) :
        LoopEntered(runLog[r]) =>
            \A f \in ImageFiles(runLog[r].input) \ CollectedBy(runLog[r]) : f \in runLog[r].warned

---------------------------------------------------------------------------
(* Claims about the preprocessor's loop *)

\* the reports of the two splits of every preprocess_images call so far
SplitReports == UNION { {prepLog[p].trainRun, prepLog[p].valRun} : p \in 1..Len(prepLog) }

IsCanvas(img) == img.w = ImageSize /\ img.h = ImageSize

\* C22: an unreadable image is caught and printed and its file is left
\* alone, every other image of both splits is normalized all the same, and
\* the number of preprocessed images the split's summary line prints leaves
\* the failed ones out
C22_FailuresExcluded ==
    \A r \in SplitReports :
        /\ \A n \in r.errors : r.output[n] = r.input[n]
        /\ \A n \in ImageFiles(DOMAIN r.input) \ r.errors : IsCanvas(r.output[n])
        /\ r.printed = Cardinality(ImageFiles(DOMAIN r.input)) - Cardinality(r.errors)

\* the pixels of a canvas on which content of size w, h sits at x, y
ContentAt(canvas, x, y, w, h) ==
    [q \in (0..(w - 1)) \X (0..(h - 1)) |-> canvas.px[<<x + q[1], y + q[2]>>]]

---------------------------------------------------------------------------
(* The collector and written_answers/ *)

\* a step that is a call of collect_data_from_written_answers
CollectorRan == Len(runLog') = Len(runLog) + 1

\* C24: a collector run leaves written_answers/ as it found it, no file
\* removed, none added; in the split directories it only adds files
C24_RawUntouched ==
    [][CollectorRan =>
          /\ rawDir' = rawDir /\ rawExists' = rawExists
          /\ DOMAIN trainImages \subseteq DOMAIN trainImages'
          /\ DOMAIN valImages \subseteq DOMAIN valImages']_vars

\* a run copied files into both splits and they are all still in
\* written_answers/
C24_Witness ==
    /\ Len(runLog) > 0
    /\ Done(LastRun)
    /\ Paths(LastRun.train) # {} /\ Paths(LastRun.val) # {}
    /\ CollectedBy(LastRun) \subseteq rawDir
    /\ CollectedBy(LastRun) \subseteq DOMAIN trainImages \cup DOMAIN valImages

---------------------------------------------------------------------------
(* The reserved tokens of the vocabulary *)

ReservedTokens == {"[PAD]", "[BOS]", "[EOS]", "[UNK]"}

\* C25: the token-to-id table of a tokenizer.json the builder trained holds
\* the four reserved tokens [PAD], [BOS], [EOS] and [UNK]
C25_ReservedTokens ==
    (builds > 0 /\ tokenizerFile.exists) => ReservedTokens \subseteq tokenizerFile.vocab

---------------------------------------------------------------------------
(* labels.txt from the collector to its readers:                          *)
(* 01_collect_data.py process_split, 03_finetune_trocr.py                 *)
(* HandwritingDataset, 04_evaluate.py, 06_prepare_pix2tex_data.py         *)

MaxPairs == 2      \* samples of the split being written

\* answers the question bank may give as labels: plain, empty, padded with
\* a blank on either side, and with a blank or a tab inside
RoundTripLabels ==
    { <<"7">>, <<>>, <<SP, "7">>, <<"7", SP>>, <<"1", SP, "2">>, <<"1", TAB, "2">> }
RoundTripRow == [path : EvNames, label : RoundTripLabels, category : {<<"a">>}]
RoundTripData ==
    {d \in UNION {[1..n -> RoundTripRow] : n \in 0..MaxPairs} :
        \A i, j \in 1..Len(d) : d[i].path = d[j].path => i = j}

\* process_split(val_data, val_images_dir, val_labels_file)
ProcessSplit ==
    /\ ~valLabels.exists
    /\ valImages' = CopiedInto(valImages, splitData)
    /\ valLabels' = File(LabelsText(splitData))
    /\ UNCHANGED <<collectVars, trainImages, trainLabels, adapterVars, prepVars, evalVars,
                   vocabVars, inferVars, toolVars>>

\* HandwritingDataset.__init__: self.labels
TrainingLoads ==
    /\ valLabels.exists
    /\ ~loaded.training.read
    /\ loaded' = [loaded EXCEPT !.training = [read |-> TRUE, rows |-> ReadLabels(valLabels.text)]]
    /\ UNCHANGED <<pipelineVars, splitData, latexVars, integralGenVars, integralAddVars, questionGenVars>>

\* convert_split: the img_name, label of every row the loop over the file reads
AdapterLoads ==
    /\ valLabels.exists
    /\ ~loaded.adapter.read
    /\ loaded' = [loaded EXCEPT !.adapter = [read |-> TRUE, rows |-> ReadLabels(valLabels.text)]]
    /\ UNCHANGED <<pipelineVars, splitData, latexVars, integralGenVars, integralAddVars, questionGenVars>>

InitLabels ==
    /\ rawExists = TRUE
    /\ rawDir = {}
    /\ bankExists = TRUE
    /\ questions = <<>>
    /\ runLog = <<>>
    /\ trainImages = <<>>
    /\ valImages = <<>>
    /\ trainLabels = NoFile
    /\ valLabels = NoFile
    /\ AdapterIdle
    /\ VocabIdle
    /\ prepLog = <<>>
    /\ infLog = <<>>
    /\ EvalIdle
    /\ splitData \in RoundTripData
    /\ QuestionGenIdle
    /\ IntegralAddIdle
    /\ IntegralGenIdle
    /\ LatexIdle
    /\ loaded = [training |-> NotRead, adapter |-> NotRead]

\* the training run that left models/trocr-finetuned behind
ModelTrained ==
    /\ ~modelDir
    /\ modelDir' = TRUE
    /\ UNCHANGED <<evPc, evLabels, evI, predictions, references, errors, evPrinted, overallCer,
                   overallWer, targetCer, worst, verdict>>
    /\ UNCHANGED <<collectVars, dataVars, adapterVars, prepVars, vocabVars, inferVars, toolVars>>

NextLabels == ProcessSplit \/ TrainingLoads \/ AdapterLoads \/ ModelTrained \/ EvalStart

SpecLabels == InitLabels /\ [][NextLabels]_vars

---------------------------------------------------------------------------
(* Claims about the labels file *)

\* the (filename, label) pairs process_split wrote
Written == [i \in 1..Len(splitData) |-> <<splitData[i].path, splitData[i].label>>]

\* C26: every reader of the labels file (training dataset, evaluation,
\* format adapter) gets the pairs the collector wrote, all of them,
\* unaltered and in the order written, labels that are empty or carry
\* blanks at their ends included
C26_LabelsRoundTrip ==
    valLabels.exists =>
        /\ \A c \in DOMAIN loaded : loaded[c].read => loaded[c].rows = Written
        /\ evPc = "loop" => evLabels = Written

---------------------------------------------------------------------------
(* render_questions.py: calls of clean_latex *)

MaxLatex == 6      \* characters of the string clean_latex is given

\* none of the pipeline's stages has run and its directories are empty
PipelineIdle ==
    /\ rawExists = TRUE
    /\ rawDir = {}
    /\ bankExists = TRUE
    /\ questions = <<>>
    /\ runLog = <<>>
    /\ trainImages = <<>>
    /\ valImages = <<>>
    /\ trainLabels = NoFile
    /\ valLabels = NoFile
    /\ AdapterIdle
    /\ VocabIdle
    /\ prepLog = <<>>
    /\ infLog = <<>>
    /\ EvalIdle

\* the strings of braces and other characters up to MaxLatex long
LatexStrings == UNION {[1..n -> {LB, RB, "x"}] : n \in 0..MaxLatex}

\* one call of clean_latex
CleanLatexCall ==
    /\ latexPc = "idle"
    /\ cleaned' = CleanLatex(latexStr)
    /\ latexPc' = "done"
    /\ UNCHANGED <<pipelineVars, labelIoVars, latexStr, integralGenVars, integralAddVars, questionGenVars>>

InitLatex ==
    /\ PipelineIdle
    /\ LabelIoIdle
    /\ latexStr \in LatexStrings
    /\ QuestionGenIdle
    /\ IntegralAddIdle
    /\ IntegralGenIdle
    /\ cleaned = <<>>
    /\ latexPc = "idle"

NextLatex == CleanLatexCall

SpecLatex == InitLatex /\ [][NextLatex]_vars

---------------------------------------------------------------------------
(* Claims about clean_latex *)

\* opening braces less closing braces among the first k characters
Depth(s, k) ==
    Cardinality({i \in 1..k : s[i] = LB}) - Cardinality({i \in 1..k : s[i] = RB})

\* every closing brace closes an opening one before it and none stays open
Balanced(s) == Depth(s, Len(s)) = 0 /\ \A k \in 1..Len(s) : Depth(s, k) >= 0

\* the brace at j closes the one opened at i
MatchingPair(s, i, j) ==
    /\ i < j /\ s[i] = LB /\ s[j] = RB
    /\ Depth(s, j) = Depth(s, i) - 1
    /\ \A k \in i..(j - 1) : Depth(s, k) >= Depth(s, i)

Stripped == latexPc = "done" /\ cleaned # latexStr

\* C27: clean_latex returns its argument or the argument without its first
\* and last character, the latter only for an argument that starts with {{,
\* ends with }} and is balanced inside; the two characters removed are a
\* brace and the brace closing it, and a balanced argument gives a balanced
\* result
C27_OneLayerAtMost ==
    latexPc = "done" =>
        /\ cleaned = latexStr \/ cleaned = SubSeq(latexStr, 2, Len(latexStr) - 1)
        /\ Stripped =>
              /\ StartsWith(latexStr, <<LB, LB>>) /\ EndsWith(latexStr, <<RB, RB>>)
              /\ Balanced(SubSeq(latexStr, 2, Len(latexStr) - 1))
              /\ MatchingPair(latexStr, 1, Len(latexStr))
        /\ Balanced(latexStr) => Balanced(cleaned)

\* {{}{}} lost its outer layer, the result {}{} being two groups
C27_Witness ==
    /\ Stripped
    /\ latexStr = <<LB, LB, RB, LB, RB, RB>>
    /\ cleaned = <<LB, RB, LB, RB>>

---------------------------------------------------------------------------
(* integral-gen/generate_integrals.py, APPEND_MODE = True                  *)
(* integrals.json is [kind, integrals]: "absent", "integrals" (a JSON      *)
(* object with the key integrals), "error" (the JSON object main writes    *)
(* when it fails) or "corrupt" (not JSON).  An integral is [id, gen], gen  *)
(* being the run that produced its problem and answer.                     *)

MaxGenRuns == 2    \* runs of main in one behaviour
MaxNew == 2        \* integrals in one LLM response

AbsentFile == [kind |-> "absent", integrals |-> <<>>]
ErrorFile == [kind |-> "error", integrals |-> <<>>]
CorruptFile == [kind |-> "corrupt", integrals |-> <<>>]
IntegralsFile(seq) == [kind |-> "integrals", integrals |-> seq]

MaxOf(S) == CHOOSE m \in S : \A x \in S : x <= m
IdsOf(seq) == {seq[i].id : i \in 1..Len(seq)}

\* get_last_id(filepath)
GetLastId(file) ==
    IF file.kind = "absent" THEN 0
    ELSE IF file.kind = "corrupt" THEN 0
    ELSE IF Len(file.integrals) = 0 THEN 0
    ELSE MaxOf(IdsOf(file.integrals))

\* existing_data.get('integrals', []): what main combines the new integrals with
ExistingIntegrals(file) == IF file.kind = "integrals" THEN file.integrals ELSE <<>>

\* the integrals an LLM response may hold for run g: up to MaxNew, numbered
\* from start_id as the prompt asks, or from 1 whatever the prompt says
NumberedFrom(first, k, g) == [i \in 1..k |-> [id |-> first + i - 1, gen |-> g]]
LlmIntegrals(startId, g) ==
    {NumberedFrom(startId, k, g) : k \in 0..MaxNew} \cup {NumberedFrom(1, k, g) : k \in 1..MaxNew}

\* what a run meets: no API key, fal_client raising, output that is not
\* JSON, JSON without the key integrals, or a list of integrals
RunOutcomes(startId, g) ==
    { [how |-> h, integrals |-> <<>>] : h \in {"no_key", "raised", "not_json", "no_integrals_key"} }
        \cup { [how |-> "parsed", integrals |-> seq] : seq \in LlmIntegrals(startId, g) }

\* integrals.json after main
FileAfterMain(file, out) ==
    IF out.how = "parsed" THEN IntegralsFile(ExistingIntegrals(file) \o out.integrals)
    ELSE ErrorFile

\* one run of main
GenerateMain ==
    /\ Len(intLog) < MaxGenRuns
    /\ \E out \in RunOutcomes(GetLastId(intFile) + 1, Len(intLog) + 1) :
         /\ intFile' = FileAfterMain(intFile, out)
         /\ intLog' = Append(intLog, [before |-> intFile, how |-> out.how,
                                      startId |-> IF out.how = "no_key" THEN 0 ELSE GetLastId(intFile) + 1,
                                      after |-> FileAfterMain(intFile, out),
                                      exit |-> IF out.how = "parsed" THEN 0 ELSE 1])
    /\ UNCHANGED <<pipelineVars, labelIoVars, latexVars, integralAddVars, questionGenVars>>

\* the files main may find: none, one that is not JSON, one from earlier runs
InitialIntegralFiles ==
    {AbsentFile, CorruptFile, IntegralsFile(<<>>), IntegralsFile(NumberedFrom(1, 2, 0)),
     IntegralsFile(<<[id |-> 2, gen |-> 0], [id |-> 1, gen |-> 0]>>)}

InitIntegralGen ==
    /\ PipelineIdle
    /\ LabelIoIdle
    /\ LatexIdle
    /\ intFile \in InitialIntegralFiles
    /\ QuestionGenIdle
    /\ IntegralAddIdle
    /\ intLog = <<>>

NextIntegralGen == GenerateMain

SpecIntegralGen == InitIntegralGen /\ [][NextIntegralGen]_vars

---------------------------------------------------------------------------
(* Claims about generate_integrals.py *)

\* the integrals a file stores
StoredIn(file) == {file.integrals[i] : i \in 1..Len(file.integrals)}

\* every id that has been stored in integrals.json, at the start or by a run
IdsStoredSoFar ==
    UNION ({IdsOf(intLog[r].before.integrals) : r \in 1..Len(intLog)} \cup {IdsOf(intFile.integrals)})

\* C28: a run of main, whether the LLM call and the parsing succeed or
\* fail, keeps every integral integrals.json held before it, and get_last_id
\* gives the largest id stored so far
C28_NothingLost ==
    /\ \A r \in 1..Len(intLog) : StoredIn(intLog[r].before) \subseteq StoredIn(intLog[r].after)
    /\ (Len(intLog) > 0 /\ IdsStoredSoFar # {}) => GetLastId(intFile) = MaxOf(IdsStoredSoFar)

---------------------------------------------------------------------------
(* integrals_generation/integral_generator.py: add_to_integrals_json       *)
(* The file is [kind, integrals]: "absent", "object" (a JSON object        *)
(* without the key integrals) or "integrals"; an entry is [id, problem].   *)

MaxAdds == 3       \* add_to_integrals_json calls in one behaviour

\* _load_integrals: the integrals array once line 250-251 has ensured it
LoadIntegrals(file) == IF file.kind = "integrals" THEN file.integrals ELSE <<>>

\* the number of entries plus one in place of the largest id plus one
GetNextIdByCount(integrals) == Len(integrals) + 1

\* _get_next_id
GetNextId(integrals) ==
    IF Len(integrals) = 0 THEN 1 ELSE MaxOf(IdsOf(integrals)) + 1

Problems == {"x", "2x", "x^2"}

\* one call add_to_integrals_json(problem, answer), question_id left at None
AddToIntegralsJson ==
    /\ Len(addLog) < MaxAdds
    /\ \E problem \in Problems :
         LET integrals == LoadIntegrals(bankFile)
             questionId == GetNextId(integrals)
             saved == IntegralsFile(Append(integrals, [id |-> questionId, problem |-> problem]))
         IN  /\ bankFile' = saved
             /\ addLog' = Append(addLog, [before |-> bankFile, returned |-> questionId, after |-> saved])
    /\ UNCHANGED <<pipelineVars, labelIoVars, latexVars, integralGenVars, questionGenVars>>

\* files with distinct ids a first call may meet: none, an object without
\* integrals, an empty array, ids in order, out of order with a gap, negative
InitialBankFiles ==
    { AbsentFile,
      [kind |-> "object", integrals |-> <<>>],
      IntegralsFile(<<>>),
      IntegralsFile(<<[id |-> 1, problem |-> "x"], [id |-> 2, problem |-> "x"]>>),
      IntegralsFile(<<[id |-> 5, problem |-> "x"], [id |-> 2, problem |-> "2x"]>>),
      IntegralsFile(<<[id |-> 0 - 3, problem |-> "x"]>>) }

InitIntegralAdd ==
    /\ PipelineIdle
    /\ LabelIoIdle
    /\ LatexIdle
    /\ IntegralGenIdle
    /\ bankFile \in InitialBankFiles
    /\ QuestionGenIdle
    /\ addLog = <<>>

NextIntegralAdd == AddToIntegralsJson

SpecIntegralAdd == InitIntegralAdd /\ [][NextIntegralAdd]_vars

---------------------------------------------------------------------------
(* Claims about add_to_integrals_json *)

DistinctIds(seq) == \A i, j \in 1..Len(seq) : seq[i].id = seq[j].id => i = j

\* C29: after calls that leave question_id unset, on a file whose ids were
\* distinct, the ids are distinct, each call returned the largest id before
\* it plus 1 (1 when there was none), and the entries stored before a call
\* are the same entries in the same order after it, the new one last
C29_FreshIds ==
    /\ DistinctIds(bankFile.integrals)
    /\ \A r \in 1..Len(addLog) :
          LET b == addLog[r].before.integrals
              a == addLog[r].after.integrals
          IN  /\ addLog[r].returned = IF IdsOf(b) = {} THEN 1 ELSE MaxOf(IdsOf(b)) + 1
              /\ Len(a) = Len(b) + 1
              /\ SubSeq(a, 1, Len(b)) = b
              /\ a[Len(a)].id = addLog[r].returned

\* two calls on the file with the ids 5, 2 returned 6 and 7
C29_Witness ==
    /\ Len(addLog) = 2
    /\ IdsOf(addLog[1].before.integrals) = {2, 5}
    /\ addLog[1].returned = 6
    /\ addLog[2].returned = 7
    /\ Len(bankFile.integrals) = 4

---------------------------------------------------------------------------
(* question-gen/generate_questions.py                                      *)
(* An argument that should be an integer is [isInt, val].  The random      *)
(* module's draws (seed None or given) are any draw it can make.           *)

MaxN == 5          \* the largest n asked for
MaxOperand == 2    \* the largest value of low and high

NotAnInt == [isInt |-> FALSE, val |-> 0]
IntArg(k) == [isInt |-> TRUE, val |-> k]

Ops == {"multiplication", "addition"}

\* the checks of lines 25-32 all pass
ValidArgs(a) ==
    /\ a.n.isInt /\ a.n.val > 0
    /\ a.low.isInt /\ a.high.isInt
    /\ a.low.val <= a.high.val
    /\ a.op \in Ops

\* pool = [(a, b) for a in range(low, high + 1) for b in range(low, high + 1)]
Pool(low, high) ==
    LET m == high - low + 1
    IN  [k \in 1..(m * m) |-> <<low + ((k - 1) \div m), low + ((k - 1) % m)>>]

\* the while loop of lines 46-50
Cycled(pool, n) == [i \in 1..n |-> pool[((i - 1) % Len(pool)) + 1]]

\* n draws from the pool, a position free to be drawn again
RandomSampleWithReplacement(pool, n) ==
    {[i \in 1..n |-> pool[f[i]]] : f \in [1..n -> 1..Len(pool)]}

\* random.sample(pool, n): n different positions of the pool, in any order
RandomSample(pool, n) ==
    {[i \in 1..n |-> pool[f[i]]] :
        f \in {g \in [1..n -> 1..Len(pool)] : \A i, j \in 1..n : g[i] = g[j] => i = j}}

\* [random.choice(pool) for _ in range(n)]
Choices(pool, n) == {[i \in 1..n |-> pool[f[i]]] : f \in [1..n -> 1..Len(pool)]}

\* the lists chosen may be after lines 39-50
ChosenLists(a) ==
    LET pool == Pool(a.low.val, a.high.val)
    IN  IF a.randomize
        THEN IF a.n.val <= Len(pool) THEN RandomSample(pool, a.n.val) ELSE Choices(pool, a.n.val)
        ELSE {Cycled(pool, a.n.val)}

\* the loop of lines 52-60; a problem is <<a, sign, b>>
QuestionsOf(chosen, op) ==
    [i \in 1..Len(chosen) |->
        [id |-> i,
         problem |-> <<chosen[i][1], IF op = "multiplication" THEN "\\times" ELSE "+", chosen[i][2]>>,
         answer |-> IF op = "multiplication" THEN chosen[i][1] * chosen[i][2]
                    ELSE chosen[i][1] + chosen[i][2]]]

\* generate_questions(n, low, high, op, out_path, randomize) called through via
Generate(a, via) ==
    /\ qResult.status = "none"
    /\ IF ~ValidArgs(a)
       THEN /\ qResult' = [status |-> "ValueError", via |-> via, args |-> a,
                           chosen |-> <<>>, questions |-> <<>>]
            /\ UNCHANGED qFile
       ELSE \E chosen \in ChosenLists(a) :
              /\ qResult' = [status |-> IF a.outPath THEN "returned_path" ELSE "returned_dict",
                             via |-> via, args |-> a,
                             chosen |-> chosen, questions |-> QuestionsOf(chosen, a.op)]
              /\ IF a.outPath
                 THEN qFile' = [exists |-> TRUE, op |-> a.op, questions |-> QuestionsOf(chosen, a.op)]
                 ELSE UNCHANGED qFile
    /\ UNCHANGED <<pipelineVars, labelIoVars, latexVars, integralGenVars, integralAddVars, qArgs>>

GenerateQuestions == Generate(qArgs, "generate_questions")

\* write_questions_to_file(n, low, high, op, out_path)
WriteQuestionsToFile == Generate([qArgs EXCEPT !.randomize = FALSE], "write_questions_to_file")

QuestionArgs ==
    [n : {NotAnInt} \cup {IntArg(k) : k \in (0 - 1)..MaxN},
     low : {NotAnInt} \cup {IntArg(k) : k \in 1..MaxOperand},
     high : {NotAnInt} \cup {IntArg(k) : k \in 1..MaxOperand},
     op : Ops \cup {"division"},
     outPath : BOOLEAN,
     randomize : BOOLEAN]

InitQuestionGen ==
    /\ PipelineIdle
    /\ LabelIoIdle
    /\ LatexIdle
    /\ IntegralGenIdle
    /\ IntegralAddIdle
    /\ qArgs \in QuestionArgs
    /\ qResult = [status |-> "none", via |-> "", args |-> qArgs, chosen |-> <<>>, questions |-> <<>>]
    /\ qFile = [exists |-> FALSE, op |-> "", questions |-> <<>>]

NextQuestionGen == GenerateQuestions \/ WriteQuestionsToFile

SpecQuestionGen == InitQuestionGen /\ [][NextQuestionGen]_vars

---------------------------------------------------------------------------
(* Claims about generate_questions *)

Ended == qResult.status # "none"
Returned == qResult.status \in {"returned_path", "returned_dict"}

\* the pair at position k of the pool, counted from 0, rows of equal a
RowMajor(low, high, k) == <<low + (k \div (high - low + 1)), low + (k % (high - low + 1))>>

\* C30: with valid arguments generate_questions gives exactly n questions
\* with the ids 1..n in order, each answer a + b (addition) or a * b
\* (multiplication) for operands a, b in [low, high]; without randomize the
\* pairs go through the pool in row-major order, starting over at its end;
\* with randomize and n within the pool's size no pair occurs twice; with
\* invalid n, low, high or op it raises ValueError and writes no file
C30_Questions ==
    Ended =>
        LET a == qResult.args
            q == qResult.questions
            c == qResult.chosen
        IN  /\ ValidArgs(a) <=> Returned
            /\ ~ValidArgs(a) => qResult.status = "ValueError" /\ ~qFile.exists
            /\ Returned =>
                  LET lo == a.low.val
                      hi == a.high.val
                      size == (hi - lo + 1) * (hi - lo + 1)
                  IN  /\ Len(q) = a.n.val
                      /\ \A i \in 1..Len(q) :
                            /\ q[i].id = i
                            /\ q[i].problem[1] \in lo..hi /\ q[i].problem[3] \in lo..hi
                            /\ q[i].problem[1] = c[i][1] /\ q[i].problem[3] = c[i][2]
                            /\ a.op = "addition" => q[i].answer = q[i].problem[1] + q[i].problem[3]
                            /\ a.op = "multiplication" => q[i].answer = q[i].problem[1] * q[i].problem[3]
                      /\ ~a.randomize => \A i \in 1..Len(c) : c[i] = RowMajor(lo, hi, (i - 1) % size)
                      /\ (a.randomize /\ a.n.val <= size) =>
                            \A i, j \in 1..Len(c) : c[i] = c[j] => i = j
                      /\ a.outPath => qFile.exists /\ qFile.questions = q /\ qFile.op = a.op

\* four random products of operands in 1..2, the whole pool in an order
\* that is not the pool's
C30_Witness ==
    /\ qResult.status = "returned_path"
    /\ qResult.args.randomize
    /\ qResult.args.op = "multiplication"
    /\ qResult.args.n.val = 4
    /\ qResult.chosen = << <<2, 2>>, <<1, 2>>, <<2, 1>>, <<1, 1>> >>
    /\ qFile.questions[1].answer = 4

=============================================================================
